---- MODULE Spec2Model ----
(***************************************************************************)
(* A model of the streaming key-detection session of keychange:            *)
(* KeyDetector (src/src/keydetector.py) together with the parts of         *)
(* VSTStreamSource (src/src/vst_stream.py) and SRTStreamSource             *)
(* (src/src/srt_stream.py) that the session drives.                        *)
(*                                                                         *)
(* Audio samples are modelled as records [id, proc]: id is the position of *)
(* the sample in the stream the source delivers, proc counts how many      *)
(* times the sample went through plugin.process.  In the session           *)
(* specification Spec one call of the estimator yields some key label of   *)
(* Keys, or raises.                                                        *)
(*                                                                         *)
(* The estimator itself (KeyDetector._analyze_audio), the plugin chain     *)
(* (src/src/vst_chain.py) and the parameters of one plugin are separate    *)
(* objects with specifications of their own: SpecEstimator, SpecSelect,    *)
(* SpecChain and SpecParameters.  Each specification holds the variables   *)
(* of the other objects at their idle values.                              *)
(***************************************************************************)
EXTENDS Integers, Sequences, FiniteSets, TLC

\* Largest required_samples = int(analysis_duration * sample_rate) explored.
MaxRequired == 2
\* Largest block_size explored.
MaxBlockLen == 2
\* Number of samples the audio source delivers in one behaviour.
MaxSamples == 2
\* Number of analysis threads spawned in one behaviour.
MaxThreads == 2

\* Labels the estimator returns in this model ("<Name> <mode>").
Keys == {"C major", "A minor"}

VARIABLES
    cfg,            \* constructor arguments of KeyDetector
    streaming,      \* KeyDetector._streaming
    stream,         \* state of the sd.InputStream held in KeyDetector.stream
    srt,            \* SRTStreamSource: _streaming, _container, _thread
    srt_queue,      \* SRTStreamSource.audio_queue
    vst_streaming,  \* VSTStreamSource._streaming
    audio_queue,    \* KeyDetector.audio_queue
    stream_buffer,  \* KeyDetector.stream_buffer
    current_key,    \* KeyDetector._current_key
    threads,        \* the analysis threads spawned so far, in spawn order
    caller,         \* position of the thread that calls start/stop_stream
    produced,       \* number of samples the source has delivered
    appended,       \* every sample appended to stream_buffer, in order
    last_call,      \* the last API call and how it returned
    stop_log,       \* steps performed by the last non-trivial stop_stream()
    listener_raised,\* <<thread, (old, new)>> of listener calls that raised
    chroma_means,   \* _analyze_audio: the time-averaged chroma vector
    correlations,   \* _analyze_audio: major_/minor_correlations
    detected,       \* _analyze_audio: the returned label
    plugins,        \* VSTPluginChain.plugins
    chain_streaming,\* VSTPluginChain._streaming
    chain_call,     \* the chain call in progress and its loop position
    chain_log,      \* member calls made by the last start/stop of the chain
    chain_result,   \* input and result of the last chain process_block
    created,        \* number of VSTStreamSource objects constructed
    parameters,     \* plugin._parameters of one VSTStreamSource
    param_call,     \* the last parameter call on that source and its result
    url,            \* SRTStreamSource.url, a sequence of characters
    srt_block_size, \* SRTStreamSource.block_size
    _streaming,     \* SRTStreamSource._streaming
    _container,     \* SRTStreamSource._container
    _stream,        \* SRTStreamSource._stream
    _thread,        \* state of the thread SRTStreamSource._thread refers to
    stale,          \* decode threads no longer referred to and still alive
    srt_audio_queue,\* SRTStreamSource.audio_queue
    audio_buffer,   \* carry-over of the decode thread in _thread
    decoded,        \* number of samples that thread has decoded
    enqueued,       \* the blocks that thread has put, in order
    got,            \* the last get_audio_block: <<>> for None, else <<block>>
    srt_call,       \* the last call on the SRT source and its progress
    vst_source,     \* a VSTStreamSource: _streaming and the plugin calls made
    vst_call,       \* the last start/stop call on that source
    vst_audio_queue \* that source's audio_queue, oldest block first

\* The variables of the estimator, the chain and the plugin parameters.
estimator == <<chroma_means, correlations, detected>>

chain == <<plugins, chain_streaming, chain_call, chain_log, chain_result,
           created>>

plugin_parameters == <<parameters, param_call>>

\* The variables of a stand-alone SRTStreamSource and VSTStreamSource.
srt_source == <<url, srt_block_size, _streaming, _container, _stream, _thread,
                stale, srt_audio_queue, audio_buffer, decoded, enqueued,
                got, srt_call>>

vst_plugin == <<vst_source, vst_call, vst_audio_queue>>

vars == <<cfg, streaming, stream, srt, srt_queue, vst_streaming, audio_queue,
          stream_buffer, current_key, threads, caller, produced, appended,
          last_call, stop_log, listener_raised, estimator, chain,
          plugin_parameters, srt_source, vst_plugin>>

\* Everything except the record of the API calls themselves.
session == <<cfg, streaming, stream, srt, srt_queue, vst_streaming,
             audio_queue, stream_buffer, current_key, threads, caller,
             produced, appended, stop_log, listener_raised>>

----------------------------------------------------------------------------
\* Pure helpers

\* Python's s[-k:] for k >= 0: s[-0:] is s[0:], the whole sequence.
PySuffix(s, k) ==
    LET start == IF k = 0 THEN 0
                 ELSE IF Len(s) - k < 0 THEN 0 ELSE Len(s) - k
    IN  SubSeq(s, start + 1, Len(s))

\* The last k elements of s (all of s when it is shorter).
LastN(s, k) ==
    IF Len(s) <= k THEN s ELSE SubSeq(s, Len(s) - k + 1, Len(s))

\* AppendAndTrim without the trim of lines 211-212.
AppendUntrimmed(buf, new_audio, required_samples) == buf \o new_audio

\* keydetector.py:208-212, concatenate then keep the most recent samples.
AppendAndTrim(buf, new_audio, required_samples) ==
    LET joined == buf \o new_audio
    IN  IF Len(joined) > required_samples
        THEN PySuffix(joined, required_samples)
        ELSE joined

\* The block of n samples that follows the first p samples of the stream.
FreshBlock(p, n) == [i \in 1..n |-> [id |-> p + i, proc |-> 0]]

\* plugin.process applied to a block.
PluginProcess(block) ==
    [i \in 1..Len(block) |-> [block[i] EXCEPT !.proc = @ + 1]]

\* VSTStreamSource.process_block: identity unless the source is streaming.
\* plugin.process returns here; the cycle in which it raises is
\* ProcessorRaises, an action of SpecCycle.
process_block(block) ==
    IF ~vst_streaming THEN block ELSE PluginProcess(block)

\* A thread record at the top of the analysis loop.
NewThread == [pc |-> "loop", before |-> "none", new_key |-> "none",
              args |-> <<>>]

\* A thread that has left the loop.
DeadThread == [NewThread EXCEPT !.pc = "dead"]

----------------------------------------------------------------------------
\* KeyDetector.__init__ after the constructor arguments are stored.
SessionConstructed ==
    /\ streaming = FALSE
    /\ stream = "none"
    /\ srt = [streaming |-> FALSE, container |-> "none", thread |-> "none"]
    /\ srt_queue = <<>>
    /\ vst_streaming = FALSE
    /\ audio_queue = <<>>
    /\ stream_buffer = <<>>
    /\ current_key = "Unknown"
    /\ threads = <<>>
    /\ caller = "idle"
    /\ produced = 0
    /\ appended = <<>>
    /\ last_call = [op |-> "none", outcome |-> "none"]
    /\ stop_log = <<>>
    /\ listener_raised = {}

\* A session that is constructed and never started.
SessionIdle ==
    /\ cfg = [srt |-> FALSE, vst |-> FALSE, listener |-> FALSE,
              required_samples |-> 0, block_size |-> 1]
    /\ SessionConstructed

\* No call of _analyze_audio is in progress.
EstimatorIdle ==
    /\ chroma_means = <<>>
    /\ correlations = <<>>
    /\ detected = "none"

\* VSTPluginChain.__init__: no plugins, not streaming.
ChainConstructed ==
    /\ plugins = <<>>
    /\ chain_streaming = FALSE
    /\ chain_call = [op |-> "none", i |-> 0, outcome |-> "none"]
    /\ chain_log = <<>>
    /\ chain_result = <<>>
    /\ created = 0

\* MockVST.__init__: gain 1.0, mix 0.5, bypass 0.0, in halves.
InitialParameters == [gain |-> 2, mix |-> 1, bypass |-> 0]

\* A VSTStreamSource after its constructor, no parameter call made yet.
ParametersConstructed ==
    /\ parameters = InitialParameters
    /\ param_call = [op |-> "none", outcome |-> "none"]

\* Characters of the URLs of this model.
SrtUrl == <<"s", "r", "t", ":", "/", "/", "h">>

\* An SRTStreamSource right after a constructor call that returned, no
\* method called yet.
SrtSourceIdle ==
    /\ url = SrtUrl
    /\ srt_block_size = 1
    /\ _streaming = FALSE
    /\ _container = "none"
    /\ _stream = "none"
    /\ _thread = "none"
    /\ stale = 0
    /\ srt_audio_queue = <<>>
    /\ audio_buffer = <<>>
    /\ decoded = 0
    /\ enqueued = <<>>
    /\ got = <<>>
    /\ srt_call = [op |-> "__init__", outcome |-> "returned"]

\* A VSTStreamSource right after its constructor: not streaming,
\* plugin.start() called.
VstSourceIdle ==
    /\ vst_source = [streaming |-> FALSE, plugin_calls |-> <<"start">>]
    /\ vst_call = [op |-> "__init__", outcome |-> "returned"]
    /\ vst_audio_queue = <<>>

Init ==
    /\ cfg \in [srt : BOOLEAN, vst : BOOLEAN, listener : BOOLEAN,
                required_samples : 0..MaxRequired,
                block_size : 1..MaxBlockLen]
    /\ SessionConstructed
    /\ EstimatorIdle
    /\ ChainConstructed
    /\ ParametersConstructed
    /\ SrtSourceIdle
    /\ VstSourceIdle

----------------------------------------------------------------------------
\* SRTStreamSource (src/src/srt_stream.py), as driven by the session

\* SRTStreamSource.start_stream with av.open succeeding: the container is
\* opened and the decode thread started.  A source that is already
\* streaming is left as it is.
SrtStarted(s) ==
    IF s.streaming THEN s
    ELSE [streaming |-> TRUE, container |-> "open", thread |-> "running"]

\* SRTStreamSource.start_stream with av.open raising: the except clause
\* clears _streaming and re-raises; no container, no thread.
SrtStartFailed(s) == [s EXCEPT !.streaming = FALSE]

\* SRTStreamSource.stop_stream: a no-op unless streaming; otherwise the flag
\* is cleared, the decode thread joined and the container closed.
SrtStopped(s) ==
    IF ~s.streaming THEN s
    ELSE [streaming |-> FALSE, container |-> "none",
          thread |-> IF s.thread = "running" THEN "exited" ELSE s.thread]

\* SRTStreamSource._process_stream, one decoded frame that completes a
\* block: the block is put on the source's queue.
SrtDecode ==
    /\ srt.thread = "running"
    /\ srt.streaming
    /\ produced + cfg.block_size <= MaxSamples
    /\ srt_queue' = Append(srt_queue, FreshBlock(produced, cfg.block_size))
    /\ produced' = produced + cfg.block_size
    /\ UNCHANGED <<estimator, chain, plugin_parameters>>
    /\ UNCHANGED <<srt_source, vst_plugin>>
    /\ UNCHANGED listener_raised
    /\ UNCHANGED <<cfg, streaming, stream, srt, vst_streaming, audio_queue,
                   stream_buffer, current_key, threads, caller, appended,
                   last_call, stop_log>>

\* SrtDecodeFails with the failure carried into the session: the session's
\* flag is cleared as well.
SrtDecodeFailsStopsSession ==
    /\ srt.thread = "running"
    /\ srt' = [srt EXCEPT !.streaming = FALSE, !.thread = "exited"]
    /\ streaming' = FALSE
    /\ UNCHANGED <<estimator, chain, plugin_parameters>>
    /\ UNCHANGED <<srt_source, vst_plugin>>
    /\ UNCHANGED listener_raised
    /\ UNCHANGED <<cfg, stream, srt_queue, vst_streaming, audio_queue,
                   stream_buffer, current_key, threads, caller, produced,
                   appended, last_call, stop_log>>

\* SRTStreamSource._process_stream, decoding raises: the error is printed,
\* _streaming cleared and the decode thread ends.  Nothing reaches the
\* session.
SrtDecodeFails ==
    /\ srt.thread = "running"
    /\ srt' = [srt EXCEPT !.streaming = FALSE, !.thread = "exited"]
    /\ UNCHANGED <<estimator, chain, plugin_parameters>>
    /\ UNCHANGED <<srt_source, vst_plugin>>
    /\ UNCHANGED listener_raised
    /\ UNCHANGED <<cfg, streaming, stream, srt_queue, vst_streaming,
                   audio_queue, stream_buffer, current_key, threads, caller,
                   produced, appended, last_call, stop_log>>

----------------------------------------------------------------------------
\* VSTStreamSource (src/src/vst_stream.py)

\* VSTStreamSource.start_stream, called on the session's vst_stream
\* attribute by the client; KeyDetector itself never calls it.  The client
\* starts the processor, if at all, before it first starts the session.
VstStartStream ==
    /\ cfg.vst
    /\ threads = <<>>
    /\ ~vst_streaming
    /\ vst_streaming' = TRUE
    /\ UNCHANGED <<estimator, chain, plugin_parameters>>
    /\ UNCHANGED <<srt_source, vst_plugin>>
    /\ UNCHANGED listener_raised
    /\ UNCHANGED <<cfg, streaming, stream, srt, srt_queue, audio_queue,
                   stream_buffer, current_key, threads, caller, produced,
                   appended, last_call, stop_log>>

----------------------------------------------------------------------------
\* KeyDetector.start_stream

\* The inner audio_callback, invoked by the sound device with one block
\* while the InputStream is active.
audio_callback ==
    /\ stream = "active"
    /\ ~cfg.srt
    /\ produced + cfg.block_size <= MaxSamples
    /\ LET indata == FreshBlock(produced, cfg.block_size)
       IN  audio_queue' = Append(audio_queue,
                                 IF cfg.vst THEN process_block(indata)
                                 ELSE indata)
    /\ produced' = produced + cfg.block_size
    /\ UNCHANGED <<estimator, chain, plugin_parameters>>
    /\ UNCHANGED <<srt_source, vst_plugin>>
    /\ UNCHANGED listener_raised
    /\ UNCHANGED <<cfg, streaming, stream, srt, srt_queue, vst_streaming,
                   stream_buffer, current_key, threads, caller, appended,
                   last_call, stop_log>>

\* StartBody with the flag set before the source is opened, so that a
\* failed open leaves _streaming true.
StartBodyFlagFirst(outcome) ==
    /\ streaming' = TRUE
    /\ IF outcome = "ok"
       THEN /\ IF cfg.srt
               THEN srt' = SrtStarted(srt) /\ UNCHANGED stream
               ELSE stream' = "active" /\ UNCHANGED srt
            /\ threads' = Append(threads, NewThread)
            /\ last_call' = [op |-> "start_stream", outcome |-> "returned"]
       ELSE /\ IF cfg.srt
               THEN srt' = SrtStartFailed(srt) /\ UNCHANGED stream
               ELSE /\ stream' = IF outcome = "start_fails" THEN "open"
                                 ELSE stream
                    /\ UNCHANGED srt
            /\ UNCHANGED threads
            /\ last_call' = [op |-> "start_stream", outcome |-> outcome]

\* What start_stream does after its guard, for each outcome of opening the
\* source: "ok", "open_fails" (sd.InputStream or srt start_stream raises),
\* "start_fails" (stream.start() raises).
StartBody(outcome) ==
    IF outcome = "ok"
    THEN /\ IF cfg.srt
            THEN srt' = SrtStarted(srt) /\ UNCHANGED stream
            ELSE stream' = "active" /\ UNCHANGED srt
         /\ streaming' = TRUE
         /\ threads' = Append(threads, NewThread)
         /\ last_call' = [op |-> "start_stream", outcome |-> "returned"]
    ELSE /\ IF cfg.srt
            THEN srt' = SrtStartFailed(srt) /\ UNCHANGED stream
            ELSE /\ stream' = IF outcome = "start_fails" THEN "open"
                              ELSE stream
                 /\ UNCHANGED srt
         /\ UNCHANGED <<streaming, threads>>
         /\ last_call' = [op |-> "start_stream", outcome |-> outcome]

\* start_stream without the guard of lines 95-96.
start_stream_unguarded ==
    /\ caller = "idle"
    /\ \E outcome \in {"ok", "open_fails", "start_fails"} :
           /\ outcome = "ok" => Len(threads) < MaxThreads
           /\ outcome = "start_fails" => ~cfg.srt
           /\ StartBody(outcome)
    /\ UNCHANGED <<estimator, chain, plugin_parameters>>
    /\ UNCHANGED <<srt_source, vst_plugin>>
    /\ UNCHANGED listener_raised
    /\ UNCHANGED <<cfg, srt_queue, vst_streaming, audio_queue, stream_buffer,
                   current_key, caller, produced, appended, stop_log>>

\* Lines 88-138.
start_stream ==
    /\ caller = "idle"
    /\ IF streaming
       THEN /\ last_call' = [op |-> "start_stream", outcome |-> "no-op"]
            /\ UNCHANGED <<streaming, stream, srt, threads>>
       ELSE \E outcome \in {"ok", "open_fails", "start_fails"} :
                /\ outcome = "ok" => Len(threads) < MaxThreads
                /\ outcome = "start_fails" => ~cfg.srt
                /\ StartBody(outcome)
    /\ UNCHANGED <<estimator, chain, plugin_parameters>>
    /\ UNCHANGED <<srt_source, vst_plugin>>
    /\ UNCHANGED listener_raised
    /\ UNCHANGED <<cfg, srt_queue, vst_streaming, audio_queue, stream_buffer,
                   current_key, caller, produced, appended, stop_log>>

----------------------------------------------------------------------------
\* KeyDetector.stop_stream

\* SRTStreamSource.stop_stream on a streaming source whose
\* container.close() raises: the flag is cleared and the thread joined, the
\* container is still held.
SrtStopFailed(s) ==
    [streaming |-> FALSE, container |-> s.container,
     thread |-> IF s.thread = "running" THEN "exited" ELSE s.thread]

\* Lines 145-151: the flag, then stopping the source.  The source step may
\* raise: raises is "stop" (stream.stop() raises), "close" (stream.close()
\* or the srt source's container.close() raises) or "none".  An exception
\* leaves stop_stream at once.
StopSource(raises) ==
    /\ streaming' = FALSE
    /\ IF raises # "none"
       THEN /\ IF cfg.srt
               THEN srt' = SrtStopFailed(srt) /\ UNCHANGED stream
               ELSE /\ stream' = IF raises = "close" THEN "stopped"
                                 ELSE stream
                    /\ UNCHANGED srt
            /\ stop_log' = <<"flag">>
            /\ caller' = "idle"
            /\ last_call' = [op |-> "stop_stream", outcome |-> "raised"]
       ELSE /\ IF cfg.srt
               THEN srt' = SrtStopped(srt) /\ UNCHANGED stream
               ELSE stream' = "closed" /\ UNCHANGED srt
            /\ stop_log' = <<"flag", "source">>
            /\ caller' = "join"
            /\ last_call' = [op |-> "stop_stream", outcome |-> "running"]

\* stop_stream that also empties the window and the queue.
stop_stream_resets ==
    /\ caller = "idle"
    /\ IF ~streaming
       THEN /\ last_call' = [op |-> "stop_stream", outcome |-> "no-op"]
            /\ UNCHANGED <<streaming, stream, srt, caller, stop_log,
                           audio_queue, stream_buffer>>
       ELSE /\ \E raises \in {"none", "stop", "close"} :
                  /\ raises = "stop" => ~cfg.srt
                  /\ (raises = "close" /\ cfg.srt) => srt.streaming
                  /\ StopSource(raises)
            /\ audio_queue' = <<>>
            /\ stream_buffer' = <<>>
    /\ UNCHANGED <<estimator, chain, plugin_parameters>>
    /\ UNCHANGED <<srt_source, vst_plugin>>
    /\ UNCHANGED listener_raised
    /\ UNCHANGED <<cfg, srt_queue, vst_streaming, current_key, threads,
                   produced, appended>>

\* Lines 140-151.
stop_stream ==
    /\ caller = "idle"
    /\ IF ~streaming
       THEN /\ last_call' = [op |-> "stop_stream", outcome |-> "no-op"]
            /\ UNCHANGED <<streaming, stream, srt, caller, stop_log>>
       ELSE \E raises \in {"none", "stop", "close"} :
                /\ raises = "stop" => ~cfg.srt
                /\ (raises = "close" /\ cfg.srt) => srt.streaming
                /\ StopSource(raises)
    /\ UNCHANGED <<estimator, chain, plugin_parameters>>
    /\ UNCHANGED <<srt_source, vst_plugin>>
    /\ UNCHANGED listener_raised
    /\ UNCHANGED <<cfg, srt_queue, vst_streaming, audio_queue, stream_buffer,
                   current_key, threads, produced, appended>>

\* stop_stream_join with the processor stopped before the join.
stop_stream_join_processor_first ==
    /\ caller = "join"
    /\ caller' = "idle"
    /\ IF cfg.vst
       THEN /\ vst_streaming' = FALSE
            /\ stop_log' = stop_log \o <<"processor", "join">>
       ELSE /\ UNCHANGED vst_streaming
            /\ stop_log' = Append(stop_log, "join")
    /\ last_call' = [op |-> "stop_stream", outcome |-> "returned"]
    /\ UNCHANGED <<estimator, chain, plugin_parameters>>
    /\ UNCHANGED <<srt_source, vst_plugin>>
    /\ UNCHANGED listener_raised
    /\ UNCHANGED <<cfg, streaming, stream, srt, srt_queue, audio_queue,
                   stream_buffer, current_key, threads, produced, appended>>

\* Lines 153-157: process_thread.join(timeout=1.0) returns, because the
\* thread ended or because the timeout expired, and the processor is
\* stopped.  process_thread is the thread spawned last.
stop_stream_join ==
    /\ caller = "join"
    /\ caller' = "idle"
    /\ IF cfg.vst
       THEN /\ vst_streaming' = FALSE
            /\ stop_log' = stop_log \o <<"join", "processor">>
       ELSE /\ UNCHANGED vst_streaming
            /\ stop_log' = Append(stop_log, "join")
    /\ last_call' = [op |-> "stop_stream", outcome |-> "returned"]
    /\ UNCHANGED <<estimator, chain, plugin_parameters>>
    /\ UNCHANGED <<srt_source, vst_plugin>>
    /\ UNCHANGED listener_raised
    /\ UNCHANGED <<cfg, streaming, stream, srt, srt_queue, audio_queue,
                   stream_buffer, current_key, threads, produced, appended>>

----------------------------------------------------------------------------
\* KeyDetector._process_stream, one analysis thread t

\* Line 189, the loop test fails: the thread ends.
LoopExit(t) ==
    /\ threads[t].pc = "loop"
    /\ ~streaming
    /\ threads' = [threads EXCEPT ![t] = DeadThread]
    /\ UNCHANGED <<estimator, chain, plugin_parameters>>
    /\ UNCHANGED <<srt_source, vst_plugin>>
    /\ UNCHANGED listener_raised
    /\ UNCHANGED <<cfg, streaming, stream, srt, srt_queue, vst_streaming,
                   audio_queue, stream_buffer, current_key, caller, produced,
                   appended, last_call, stop_log>>

\* Consume without the test of line 215: the estimator runs after every
\* block.
ConsumeAlwaysAnalyze(t, new_audio) ==
    LET processed == IF cfg.vst /\ ~cfg.srt THEN process_block(new_audio)
                     ELSE new_audio
        buf == AppendAndTrim(stream_buffer, processed, cfg.required_samples)
    IN  /\ stream_buffer' = buf
        /\ appended' = appended \o processed
        /\ threads' = [threads EXCEPT ![t] =
              [pc |-> "analyze", before |-> current_key,
               new_key |-> "none", args |-> <<>>]]

\* Lines 204-215 for the block new_audio just taken from a queue.
Consume(t, new_audio) ==
    LET processed == IF cfg.vst /\ ~cfg.srt THEN process_block(new_audio)
                     ELSE new_audio
        buf == AppendAndTrim(stream_buffer, processed, cfg.required_samples)
    IN  /\ stream_buffer' = buf
        /\ appended' = appended \o processed
        /\ threads' = [threads EXCEPT ![t] =
              [pc |-> IF Len(buf) >= cfg.required_samples THEN "analyze"
                      ELSE "loop",
               before |-> IF Len(buf) >= cfg.required_samples
                          THEN current_key ELSE "none",
               new_key |-> "none", args |-> <<>>]]

\* Lines 189-215: the loop test passes and a block is available.  (With an
\* empty queue get_audio_block returns None, or get times out with
\* queue.Empty; both continue the loop and change nothing.)
Poll(t) ==
    /\ threads[t].pc = "loop"
    /\ streaming
    /\ IF cfg.srt
       THEN /\ srt_queue # <<>>
            /\ srt_queue' = Tail(srt_queue)
            /\ UNCHANGED audio_queue
            /\ Consume(t, Head(srt_queue))
       ELSE /\ audio_queue # <<>>
            /\ audio_queue' = Tail(audio_queue)
            /\ UNCHANGED srt_queue
            /\ Consume(t, Head(audio_queue))
    /\ UNCHANGED <<estimator, chain, plugin_parameters>>
    /\ UNCHANGED <<srt_source, vst_plugin>>
    /\ UNCHANGED listener_raised
    /\ UNCHANGED <<cfg, streaming, stream, srt, vst_streaming, current_key,
                   caller, produced, last_call, stop_log>>

\* Notify with line 220 moved before the listener call: the key is stored
\* when the listener is entered.
NotifyStoresFirst(t, new_key) ==
    /\ current_key' = new_key
    /\ IF new_key # current_key /\ cfg.listener
       THEN threads' = [threads EXCEPT ![t].pc = "listener",
                                       ![t].new_key = new_key,
                                       ![t].args = <<current_key, new_key>>]
       ELSE threads' = [threads EXCEPT ![t] = NewThread]

\* Lines 216-220 once _analyze_audio has returned new_key: the listener is
\* entered, or the key stored at once.
Notify(t, new_key) ==
    IF new_key # current_key /\ cfg.listener
    THEN /\ threads' = [threads EXCEPT ![t].pc = "listener",
                                       ![t].new_key = new_key,
                                       ![t].args = <<current_key, new_key>>]
         /\ UNCHANGED current_key
    ELSE /\ threads' = [threads EXCEPT ![t] = NewThread]
         /\ current_key' = new_key

Analyze(t) ==
    /\ threads[t].pc = "analyze"
    /\ \E new_key \in Keys : Notify(t, new_key)
    /\ UNCHANGED <<estimator, chain, plugin_parameters>>
    /\ UNCHANGED <<srt_source, vst_plugin>>
    /\ UNCHANGED listener_raised
    /\ UNCHANGED <<cfg, streaming, stream, srt, srt_queue, vst_streaming,
                   audio_queue, stream_buffer, caller, produced, appended,
                   last_call, stop_log>>

\* CycleRaises with the exception leaving the loop: the thread ends.
CycleRaisesKillsThread(t) ==
    /\ threads[t].pc \in {"analyze", "listener"}
    /\ threads' = [threads EXCEPT ![t] = DeadThread]
    /\ UNCHANGED <<estimator, chain, plugin_parameters>>
    /\ UNCHANGED <<srt_source, vst_plugin>>
    /\ UNCHANGED listener_raised
    /\ UNCHANGED <<cfg, streaming, stream, srt, srt_queue, vst_streaming,
                   audio_queue, stream_buffer, current_key, caller, produced,
                   appended, last_call, stop_log>>

\* Lines 224-225: _analyze_audio or the listener raises; the exception is
\* printed and the loop continues, line 220 is skipped.
CycleRaises(t) ==
    /\ threads[t].pc \in {"analyze", "listener"}
    /\ threads' = [threads EXCEPT ![t] = NewThread]
    /\ UNCHANGED <<estimator, chain, plugin_parameters>>
    /\ UNCHANGED <<srt_source, vst_plugin>>
    /\ UNCHANGED listener_raised
    /\ UNCHANGED <<cfg, streaming, stream, srt, srt_queue, vst_streaming,
                   audio_queue, stream_buffer, current_key, caller, produced,
                   appended, last_call, stop_log>>

\* Line 220 after the listener has returned.
ListenerReturns(t) ==
    /\ threads[t].pc = "listener"
    /\ current_key' = threads[t].new_key
    /\ threads' = [threads EXCEPT ![t] = NewThread]
    /\ UNCHANGED <<estimator, chain, plugin_parameters>>
    /\ UNCHANGED <<srt_source, vst_plugin>>
    /\ UNCHANGED listener_raised
    /\ UNCHANGED <<cfg, streaming, stream, srt, srt_queue, vst_streaming,
                   audio_queue, stream_buffer, caller, produced, appended,
                   last_call, stop_log>>

\* Lines 204-205 and 224-225: the loop test passes, a block is taken and
\* the processor's plugin.process raises; the exception is printed and the
\* loop continues, the block is not appended.
ProcessorRaises(t) ==
    /\ threads[t].pc = "loop"
    /\ streaming
    /\ cfg.vst
    /\ ~cfg.srt
    /\ vst_streaming
    /\ audio_queue # <<>>
    /\ audio_queue' = Tail(audio_queue)
    /\ UNCHANGED <<estimator, chain, plugin_parameters>>
    /\ UNCHANGED <<srt_source, vst_plugin>>
    /\ UNCHANGED listener_raised
    /\ UNCHANGED <<cfg, streaming, stream, srt, srt_queue, vst_streaming,
                   stream_buffer, current_key, threads, caller, produced,
                   appended, last_call, stop_log>>

_process_stream ==
    \E t \in 1..Len(threads) :
        \/ LoopExit(t)
        \/ Poll(t)
        \/ Analyze(t)
        \/ CycleRaises(t)
        \/ ListenerReturns(t)

----------------------------------------------------------------------------
Next ==
    \/ start_stream
    \/ stop_stream
    \/ stop_stream_join
    \/ audio_callback
    \/ SrtDecode
    \/ SrtDecodeFails
    \/ VstStartStream
    \/ _process_stream

Spec == Init /\ [][Next]_vars

----------------------------------------------------------------------------
\* KeyDetector._analyze_audio (src/src/keydetector.py:252-293)
\*
\* The chroma vector chroma_means is what np.mean(chroma_cqt(...)) yields,
\* here twelve natural numbers.  The profiles are the source's values in
\* hundredths.  A correlation is kept exactly, as the number
\* num / sqrt(den) with den a natural number of any size, or as NaN.

\* Most pitch classes that carry energy above the floor of a chroma vector.
MaxNotes == 2
\* Largest energy of one pitch class above the floor, and largest floor.
MaxEnergy == 2

PITCH_CLASSES ==
    <<"C", "C#", "D", "D#", "E", "F", "F#", "G", "G#", "A", "A#", "B">>

MAJOR_PROFILE == <<635, 223, 348, 233, 438, 409, 252, 519, 239, 366, 229, 288>>

MINOR_PROFILE == <<633, 268, 352, 538, 260, 353, 254, 475, 398, 269, 334, 317>>

\* The rotations tried by the loop of line 277, range(12).
Rotations == 0..(Len(PITCH_CLASSES) - 1)

\* Natural numbers of any size, as little-endian sequences of limbs.
LimbBase == 2^15

RECURSIVE BigOf(_)
BigOf(n) ==
    IF n = 0 THEN <<>> ELSE <<n % LimbBase>> \o BigOf(n \div LimbBase)

RECURSIVE BigTimesLimb(_, _, _)
BigTimesLimb(a, m, carry) ==
    IF a = <<>> THEN BigOf(carry)
    ELSE LET v == Head(a) * m + carry
         IN  <<v % LimbBase>> \o BigTimesLimb(Tail(a), m, v \div LimbBase)

RECURSIVE BigPlus(_, _, _)
BigPlus(a, b, carry) ==
    IF a = <<>> /\ b = <<>> THEN BigOf(carry)
    ELSE LET da == IF a = <<>> THEN 0 ELSE Head(a)
             db == IF b = <<>> THEN 0 ELSE Head(b)
             v == da + db + carry
         IN  <<v % LimbBase>> \o BigPlus(IF a = <<>> THEN a ELSE Tail(a),
                                         IF b = <<>> THEN b ELSE Tail(b),
                                         v \div LimbBase)

RECURSIVE BigTrim(_)
BigTrim(a) ==
    IF a # <<>> /\ a[Len(a)] = 0
    THEN BigTrim(SubSeq(a, 1, Len(a) - 1))
    ELSE a

RECURSIVE BigTimes(_, _)
BigTimes(a, b) ==
    IF a = <<>> THEN <<>>
    ELSE LET rest == BigTimes(Tail(a), b)
         IN  BigTrim(BigPlus(BigTimesLimb(b, Head(a), 0),
                             IF rest = <<>> THEN rest ELSE <<0>> \o rest, 0))

RECURSIVE BigLess(_, _)
BigLess(a, b) ==
    IF Len(a) # Len(b) THEN Len(a) < Len(b)
    ELSE IF a = <<>> THEN FALSE
    ELSE IF a[Len(a)] # b[Len(b)] THEN a[Len(a)] < b[Len(b)]
    ELSE BigLess(SubSeq(a, 1, Len(a) - 1), SubSeq(b, 1, Len(b) - 1))

Abs(n) == IF n < 0 THEN -n ELSE n

\* num^2 * den, the square of a score's magnitude cross-multiplied.
Weight(num, den) == BigTimes(BigTimes(BigOf(Abs(num)), BigOf(Abs(num))), den)

RECURSIVE SumUpTo(_, _)
SumUpTo(x, n) == IF n = 0 THEN 0 ELSE x[n] + SumUpTo(x, n - 1)

Sum(x) == SumUpTo(x, Len(x))

Dot(p, x) == Sum([j \in 1..Len(p) |-> p[j] * x[j]])

\* Line 269, chroma_means / chroma_means.sum().  Dividing by a zero sum
\* yields NaN in every bin (a RuntimeWarning, no exception).  A positive
\* scale does not change a correlation, so the bins keep their values.
Normalize(x) == [nan |-> Sum(x) = 0, bins |-> x]

\* The array with the elements of the function f on 1..n, in order.
Array(f) == <<>> \o f

\* np.roll(x, i): element j of the result is element j - i of x.
roll(x, i) ==
    [nan |-> x.nan,
     bins |-> Array([j \in 1..Len(x.bins) |->
                        x.bins[((j - 1 - i) % Len(x.bins)) + 1]])]

\* np.corrcoef(p, x)[0, 1] = cov / sqrt(var_p * var_x), each scaled by n^2.
\* It is NaN when an input is NaN or a variance is zero (0/0).
corrcoef(p, x) ==
    LET n    == Len(p)
        cov  == n * Dot(p, x.bins) - Sum(p) * Sum(x.bins)
        varp == n * Dot(p, p) - Sum(p) * Sum(p)
        varx == n * Dot(x.bins, x.bins) - Sum(x.bins) * Sum(x.bins)
    IN  IF x.nan \/ varp = 0 \/ varx = 0
        THEN [nan |-> TRUE, num |-> 0, den |-> <<>>]
        ELSE [nan |-> FALSE, num |-> cov,
              den |-> BigTimes(BigOf(varp), BigOf(varx))]

\* a > b on floats; every comparison with NaN is false.
Gt(a, b) ==
    /\ ~a.nan
    /\ ~b.nan
    /\ IF a.den = b.den
       THEN a.num > b.num
       ELSE IF a.num > 0 /\ b.num > 0
       THEN BigLess(Weight(b.num, a.den), Weight(a.num, b.den))
       ELSE IF a.num < 0 /\ b.num < 0
       THEN BigLess(Weight(a.num, b.den), Weight(b.num, a.den))
       ELSE a.num > b.num

\* a == b on floats.
Eq(a, b) == ~a.nan /\ ~b.nan /\ ~Gt(a, b) /\ ~Gt(b, a)

\* Python's max(scores), as the position of the object it returns: the
\* first item is kept until a later item compares greater.
RECURSIVE PyMaxUpTo(_, _)
PyMaxUpTo(scores, n) ==
    IF n = 1 THEN 1
    ELSE LET best == PyMaxUpTo(scores, n - 1)
         IN  IF Gt(scores[n], scores[best]) THEN n ELSE best

PyMax(scores) == PyMaxUpTo(scores, Len(scores))

\* Python's scores.index(scores[p]), 0-based: the first item that is the
\* same object or compares equal.
PyIndex(scores, p) ==
    LET found == {i \in 1..Len(scores) : i = p \/ Eq(scores[i], scores[p])}
    IN  (CHOOSE i \in found : \A j \in found : i <= j) - 1

\* SelectKey with >= in place of > on line 286.
SelectKeyMajorOnTie(major_correlations, minor_correlations) ==
    LET max_major == PyMax(major_correlations)
        max_minor == PyMax(minor_correlations)
    IN  IF ~Gt(minor_correlations[max_minor], major_correlations[max_major])
        THEN [key_idx |-> PyIndex(major_correlations, max_major),
              mode |-> "major"]
        ELSE [key_idx |-> PyIndex(minor_correlations, max_minor),
              mode |-> "minor"]

\* Lines 281-291.
SelectKey(major_correlations, minor_correlations) ==
    LET max_major == PyMax(major_correlations)
        max_minor == PyMax(minor_correlations)
    IN  IF Gt(major_correlations[max_major], minor_correlations[max_minor])
        THEN [key_idx |-> PyIndex(major_correlations, max_major),
              mode |-> "major"]
        ELSE [key_idx |-> PyIndex(minor_correlations, max_minor),
              mode |-> "minor"]

\* Line 293, f"{self.PITCH_CLASSES[key_idx]} {mode}".
KeyLabel(k) == PITCH_CLASSES[k.key_idx + 1] \o " " \o k.mode

\* Lines 272-279, the two lists of twelve scores.
Correlations(x) ==
    [major |-> Array([r \in 1..Len(PITCH_CLASSES) |->
                   corrcoef(MAJOR_PROFILE, roll(Normalize(x), r - 1))]),
     minor |-> Array([r \in 1..Len(PITCH_CLASSES) |->
                   corrcoef(MINOR_PROFILE, roll(Normalize(x), r - 1))])]

\* The chroma vector with the given floor in every bin and extra energy in
\* the bins of notes.
ChromaOf(floor, notes, energy) ==
    [j \in 1..Len(PITCH_CLASSES) |->
        floor + (IF (j - 1) \in notes THEN energy[j - 1] ELSE 0)]

\* The subsets of S that have at most k elements.
RECURSIVE UpTo(_, _)
UpTo(S, k) ==
    IF k = 0 THEN {{}}
    ELSE UpTo(S, k - 1) \cup {s \cup {e} : s \in UpTo(S, k - 1), e \in S}

\* A call of _analyze_audio is entered with some chroma vector: a floor
\* and at most MaxNotes pitch classes that carry more.
InitEstimator ==
    /\ SessionIdle
    /\ ChainConstructed
    /\ ParametersConstructed
    /\ SrtSourceIdle
    /\ VstSourceIdle
    /\ \E notes \in UpTo(Rotations, MaxNotes) :
       \E floor \in 0..MaxEnergy :
       \E energy \in [notes -> 1..MaxEnergy] :
           chroma_means = ChromaOf(floor, notes, energy)
    /\ correlations = <<>>
    /\ detected = "none"

\* One call of _analyze_audio on the window whose averaged chroma vector is
\* chroma_means.
_analyze_audio ==
    /\ detected = "none"
    /\ correlations' = Correlations(chroma_means)
    /\ detected' = KeyLabel(SelectKey(correlations'.major,
                                      correlations'.minor))
    /\ UNCHANGED chroma_means
    /\ UNCHANGED <<session, last_call, chain, plugin_parameters>>
    /\ UNCHANGED <<srt_source, vst_plugin>>

NextEstimator == _analyze_audio

SpecEstimator == InitEstimator /\ [][NextEstimator]_vars

----------------------------------------------------------------------------
\* _analyze_audio on transposed profiles

\* Largest factor by which a profile is scaled; line 269 normalises the
\* chroma vector, so only its proportions matter.
MaxGain == 3

\* The profile transposed up by p pitch classes and scaled by gain: bin
\* (j + p) mod 12 holds gain * profile[j].
Transposed(profile, p, gain) ==
    Array([k \in 1..Len(profile) |->
              gain * profile[((k - 1 - p) % Len(profile)) + 1]])

\* A call of _analyze_audio is entered with the chroma vector of a
\* transposed profile.
InitTransposed ==
    /\ SessionIdle
    /\ ChainConstructed
    /\ ParametersConstructed
    /\ SrtSourceIdle
    /\ VstSourceIdle
    /\ \E profile \in {MAJOR_PROFILE, MINOR_PROFILE} :
       \E p \in Rotations :
       \E gain \in 1..MaxGain :
           chroma_means = Transposed(profile, p, gain)
    /\ correlations = <<>>
    /\ detected = "none"

SpecTransposed == InitTransposed /\ [][NextEstimator]_vars

\* A score of an integer value, for the lists of SpecSelect.
ScoreOf(v) == [nan |-> FALSE, num |-> v, den |-> BigOf(1)]

\* The pair of score lists that is zero everywhere but for the candidates
\* of peaks, which score value.
ScoreLists(peaks, value) ==
    [m \in {"major", "minor"} |->
        [r \in 1..Len(PITCH_CLASSES) |->
            ScoreOf(IF <<r - 1, m>> \in peaks
                    THEN value[<<r - 1, m>>] ELSE 0)]]

\* Line 281 is reached with some pair of score lists: at most MaxNotes of
\* the 24 candidates score -1 or 1..MaxEnergy, the others zero.
InitSelect ==
    /\ SessionIdle
    /\ ChainConstructed
    /\ ParametersConstructed
    /\ SrtSourceIdle
    /\ VstSourceIdle
    /\ chroma_means = <<>>
    /\ \E peaks \in UpTo(Rotations \X {"major", "minor"}, MaxNotes) :
       \E value \in [peaks -> (-1..MaxEnergy) \ {0}] :
           correlations = ScoreLists(peaks, value)
    /\ detected = "none"

\* Lines 281-293 on the score lists in correlations.
DetermineKey ==
    /\ detected = "none"
    /\ detected' = KeyLabel(SelectKey(correlations.major,
                                      correlations.minor))
    /\ UNCHANGED <<chroma_means, correlations>>
    /\ UNCHANGED <<session, last_call, chain, plugin_parameters>>
    /\ UNCHANGED <<srt_source, vst_plugin>>

NextSelect == DetermineKey

SpecSelect == InitSelect /\ [][NextSelect]_vars

----------------------------------------------------------------------------
\* VSTPluginChain (src/src/vst_chain.py) and its members, VSTStreamSource
\* objects (src/src/vst_stream.py).
\*
\* A member is a record [id, streaming, queued, parameters]: id numbers the
\* sources in the order of their construction, streaming is its _streaming
\* flag, queued the length of its audio_queue and parameters its plugin's
\* parameters.  A block is the sequence of the ids of the plugins whose
\* process() it went through, oldest first.
\*
\* chain_call.i is the loop position of a start_stream or stop_stream in
\* progress, the index passed to a call that takes one, and the index
\* returned by an add_plugin that returned.

\* Number of VSTStreamSource objects constructed in one behaviour.
MaxPlugins == 2
\* Number of blocks one member's process_block puts on its queue.
MaxBlocks == 1

\* No chain call is in progress.
ChainReady == chain_call.outcome # "running"

\* VSTStreamSource.process_block of member m on block x: the result.
MemberOutput(m, x) == IF ~m.streaming THEN x ELSE Append(x, m.id)

\* VSTStreamSource.process_block of member m: the member afterwards.
MemberProcessed(m) ==
    IF ~m.streaming THEN m ELSE [m EXCEPT !.queued = @ + 1]

\* The loop of lines 135-138 over the members ps, first to last.
RECURSIVE ThroughEach(_, _)
ThroughEach(ps, current_data) ==
    IF ps = <<>> THEN current_data
    ELSE ThroughEach(Tail(ps), MemberOutput(Head(ps), current_data))

\* The sequence ps in reverse.
Reverse(ps) == [k \in 1..Len(ps) |-> ps[Len(ps) - k + 1]]

\* ChainOutput with the loop running over the members last to first.
ChainOutputLastFirst(ps, is_streaming, input_data) ==
    IF ~is_streaming \/ ps = <<>> THEN input_data
    ELSE ThroughEach(Reverse(ps), input_data)

\* VSTPluginChain.process_block: the result.
ChainOutput(ps, is_streaming, input_data) ==
    IF ~is_streaming \/ ps = <<>> THEN input_data
    ELSE ThroughEach(ps, input_data)

\* A VSTStreamSource as add_plugin appends it: the n-th constructed.
NewMember(n) ==
    [id |-> n, streaming |-> FALSE, queued |-> 0,
     parameters |-> InitialParameters]

\* add_plugin with the append of line 47 made before the initial
\* parameters are set: a plugin whose configuration fails is a member.
add_plugin_appends_first ==
    /\ ChainReady
    /\ created < MaxPlugins
    /\ plugins' = Append(plugins, NewMember(created + 1))
    /\ created' = created + 1
    /\ \E raises \in BOOLEAN :
          chain_call' = [op |-> "add_plugin",
                         i |-> IF raises THEN 0 ELSE Len(plugins),
                         outcome |-> IF raises THEN "raised" ELSE "returned"]
    /\ UNCHANGED <<chain_streaming, chain_log, chain_result>>
    /\ UNCHANGED <<session, last_call, estimator, plugin_parameters>>
    /\ UNCHANGED <<srt_source, vst_plugin>>

\* Lines 22-48.  Constructing the source, or setting one of the initial
\* parameters, may raise; then nothing is appended.  Otherwise the source
\* is appended and len(self.plugins) - 1 returned.
add_plugin ==
    /\ ChainReady
    /\ created < MaxPlugins
    /\ \E raises \in BOOLEAN :
          IF raises
          THEN /\ chain_call' = [op |-> "add_plugin", i |-> 0,
                                 outcome |-> "raised"]
               /\ UNCHANGED <<plugins, created>>
          ELSE /\ plugins' = Append(plugins, NewMember(created + 1))
               /\ created' = created + 1
               /\ chain_call' = [op |-> "add_plugin",
                                 i |-> Len(plugins') - 1,
                                 outcome |-> "returned"]
    /\ UNCHANGED <<chain_streaming, chain_log, chain_result>>
    /\ UNCHANGED <<session, last_call, estimator, plugin_parameters>>
    /\ UNCHANGED <<srt_source, vst_plugin>>

\* Pop that takes the last element whatever the index.
PopLast(ps, index) == SubSeq(ps, 1, Len(ps) - 1)

\* The sequence ps without its element at the 0-based index.
Pop(ps, index) == SubSeq(ps, 1, index) \o SubSeq(ps, index + 2, Len(ps))

\* Lines 50-65.  An index outside 0..len-1 raises IndexError.  Otherwise
\* the member is popped and, when the chain is streaming, its stop_stream()
\* called, whose plugin.suspend() may raise.
remove_plugin ==
    /\ ChainReady
    /\ \E index \in -1..MaxPlugins :
          IF ~(0 <= index /\ index < Len(plugins))
          THEN /\ chain_call' = [op |-> "remove_plugin", i |-> index,
                                 outcome |-> "IndexError"]
               /\ chain_log' = <<>>
               /\ UNCHANGED plugins
          ELSE /\ plugins' = Pop(plugins, index)
               /\ chain_log' = IF chain_streaming
                               THEN << <<"stop", index>> >>
                               ELSE <<>>
               /\ \E raises \in BOOLEAN :
                     /\ raises => chain_streaming /\ plugins[index + 1].streaming
                     /\ chain_call' =
                           [op |-> "remove_plugin", i |-> index,
                            outcome |-> IF raises THEN "raised"
                                        ELSE "returned"]
    /\ UNCHANGED <<chain_streaming, chain_result, created>>
    /\ UNCHANGED <<session, last_call, estimator, plugin_parameters>>
    /\ UNCHANGED <<srt_source, vst_plugin>>

\* Lines 104-109: start_stream is entered.
chain_start_stream ==
    /\ ChainReady
    /\ IF chain_streaming
       THEN /\ chain_call' = [op |-> "start_stream", i |-> 0,
                              outcome |-> "no-op"]
            /\ UNCHANGED chain_log
       ELSE /\ chain_call' = [op |-> "start_stream", i |-> 0,
                              outcome |-> "running"]
            /\ chain_log' = <<>>
    /\ UNCHANGED <<plugins, chain_streaming, chain_result, created>>
    /\ UNCHANGED <<session, last_call, estimator, plugin_parameters>>
    /\ UNCHANGED <<srt_source, vst_plugin>>

\* Lines 109-110, one iteration: plugin.start_stream() on the member at
\* index chain_call.i.  A member that is streaming is left alone; otherwise
\* its flag is set and plugin.resume() called, which may raise.
StartMember ==
    /\ chain_call.op = "start_stream"
    /\ chain_call.outcome = "running"
    /\ chain_call.i < Len(plugins)
    /\ LET index == chain_call.i + 1
       IN  /\ plugins' = [plugins EXCEPT ![index].streaming = TRUE]
           /\ chain_log' = Append(chain_log, <<"start", chain_call.i>>)
           /\ \E raises \in BOOLEAN :
                 /\ raises => ~plugins[index].streaming
                 /\ chain_call' =
                       IF raises
                       THEN [chain_call EXCEPT !.i = 0,
                                               !.outcome = "raised"]
                       ELSE [chain_call EXCEPT !.i = @ + 1]
    /\ UNCHANGED <<chain_streaming, chain_result, created>>
    /\ UNCHANGED <<session, last_call, estimator, plugin_parameters>>
    /\ UNCHANGED <<srt_source, vst_plugin>>

\* Line 111: the loop is over, the chain is streaming.
StartDone ==
    /\ chain_call.op = "start_stream"
    /\ chain_call.outcome = "running"
    /\ chain_call.i = Len(plugins)
    /\ chain_streaming' = TRUE
    /\ chain_call' = [chain_call EXCEPT !.i = 0, !.outcome = "returned"]
    /\ UNCHANGED <<plugins, chain_log, chain_result, created>>
    /\ UNCHANGED <<session, last_call, estimator, plugin_parameters>>
    /\ UNCHANGED <<srt_source, vst_plugin>>

\* Lines 113-118: stop_stream is entered.
chain_stop_stream ==
    /\ ChainReady
    /\ IF ~chain_streaming
       THEN /\ chain_call' = [op |-> "stop_stream", i |-> 0,
                              outcome |-> "no-op"]
            /\ UNCHANGED chain_log
       ELSE /\ chain_call' = [op |-> "stop_stream", i |-> 0,
                              outcome |-> "running"]
            /\ chain_log' = <<>>
    /\ UNCHANGED <<plugins, chain_streaming, chain_result, created>>
    /\ UNCHANGED <<session, last_call, estimator, plugin_parameters>>
    /\ UNCHANGED <<srt_source, vst_plugin>>

\* The 1-based index of the k-th member a forward loop over n members
\* visits.
ForwardIndex(n, k) == k

\* The 1-based index of the k-th member that
\* "for plugin in reversed(self.plugins)" visits, of n members.
ReversedIndex(n, k) == n - k + 1

\* Lines 118-119, one iteration: plugin.stop_stream() on the next member of
\* the reversed list, chain_call.i members having been visited.  A member
\* that is not streaming is left alone; otherwise its flag is cleared and
\* plugin.suspend() called, which may raise.
StopMember ==
    /\ chain_call.op = "stop_stream"
    /\ chain_call.outcome = "running"
    /\ chain_call.i < Len(plugins)
    /\ LET index == ReversedIndex(Len(plugins), chain_call.i + 1)
       IN  /\ plugins' = [plugins EXCEPT ![index].streaming = FALSE]
           /\ chain_log' = Append(chain_log, <<"stop", index - 1>>)
           /\ \E raises \in BOOLEAN :
                 /\ raises => plugins[index].streaming
                 /\ chain_call' =
                       IF raises
                       THEN [chain_call EXCEPT !.i = 0,
                                               !.outcome = "raised"]
                       ELSE [chain_call EXCEPT !.i = @ + 1]
    /\ UNCHANGED <<chain_streaming, chain_result, created>>
    /\ UNCHANGED <<session, last_call, estimator, plugin_parameters>>
    /\ UNCHANGED <<srt_source, vst_plugin>>

\* Line 120: the loop is over, the chain is not streaming.
StopDone ==
    /\ chain_call.op = "stop_stream"
    /\ chain_call.outcome = "running"
    /\ chain_call.i = Len(plugins)
    /\ chain_streaming' = FALSE
    /\ chain_call' = [chain_call EXCEPT !.i = 0, !.outcome = "returned"]
    /\ UNCHANGED <<plugins, chain_log, chain_result, created>>
    /\ UNCHANGED <<session, last_call, estimator, plugin_parameters>>
    /\ UNCHANGED <<srt_source, vst_plugin>>

\* Lines 122-138 on a block fresh from the source.
chain_process_block ==
    /\ ChainReady
    /\ \A p \in 1..Len(plugins) : plugins[p].queued < MaxBlocks
    /\ LET input_data == <<>>
       IN  chain_result' =
               [input |-> input_data,
                output |-> ChainOutput(plugins, chain_streaming, input_data)]
    /\ plugins' = IF ~chain_streaming THEN plugins
                  ELSE [p \in 1..Len(plugins) |-> MemberProcessed(plugins[p])]
    /\ chain_call' = [op |-> "process_block", i |-> 0,
                      outcome |-> "returned"]
    /\ UNCHANGED <<chain_streaming, chain_log, created>>
    /\ UNCHANGED <<session, last_call, estimator, plugin_parameters>>
    /\ UNCHANGED <<srt_source, vst_plugin>>

InitChain ==
    /\ SessionIdle
    /\ EstimatorIdle
    /\ ParametersConstructed
    /\ SrtSourceIdle
    /\ VstSourceIdle
    /\ ChainConstructed

NextChain ==
    \/ add_plugin
    \/ remove_plugin
    \/ chain_start_stream
    \/ StartMember
    \/ StartDone
    \/ chain_stop_stream
    \/ StopMember
    \/ StopDone
    \/ chain_process_block

SpecChain == InitChain /\ [][NextChain]_vars

----------------------------------------------------------------------------
\* The parameters of one VSTStreamSource (src/src/vst_stream.py:82-94), its
\* plugin being the MockVST of src/tests/mock_vst.py.  Parameter values are
\* counted in halves: 2 is 1.0.

\* Largest value, in halves, passed to set_plugin_parameter.
MaxValue == 3

\* The names passed to set_plugin_parameter: the plugin's and one more.
ParamIds == DOMAIN InitialParameters \cup {"invalid_param"}

\* set_parameter without the test of line 39.
set_parameter_unchecked(params, param_id, value) ==
    IF param_id \notin DOMAIN params
    THEN [outcome |-> "KeyError", parameters |-> params]
    ELSE [outcome |-> "returned",
          parameters |-> [params EXCEPT ![param_id] = value]]

\* MockVST.set_parameter, lines 36-41: how it returns and the parameters
\* afterwards.
set_parameter(params, param_id, value) ==
    IF param_id \notin DOMAIN params
    THEN [outcome |-> "KeyError", parameters |-> params]
    ELSE IF ~(0 <= value /\ value <= 2)
    THEN [outcome |-> "ValueError", parameters |-> params]
    ELSE [outcome |-> "returned",
          parameters |-> [params EXCEPT ![param_id] = value]]

\* MockVST.get_parameters, lines 33-34: a copy of the dictionary.
get_parameters(params) == params

\* VSTStreamSource.set_plugin_parameter, lines 86-94.
set_plugin_parameter ==
    /\ \E param_id \in ParamIds, value \in -1..MaxValue :
          LET r == set_parameter(parameters, param_id, value)
          IN  /\ parameters' = r.parameters
              /\ param_call' = [op |-> "set_plugin_parameter",
                                param_id |-> param_id, value |-> value,
                                outcome |-> r.outcome]
    /\ UNCHANGED <<session, last_call, estimator, chain>>
    /\ UNCHANGED <<srt_source, vst_plugin>>

\* VSTStreamSource.get_plugin_parameters, lines 82-84.
get_plugin_parameters ==
    /\ param_call' = [op |-> "get_plugin_parameters",
                      outcome |-> "returned",
                      result |-> get_parameters(parameters)]
    /\ UNCHANGED parameters
    /\ UNCHANGED <<session, last_call, estimator, chain>>
    /\ UNCHANGED <<srt_source, vst_plugin>>

InitParameters ==
    /\ SessionIdle
    /\ EstimatorIdle
    /\ ChainConstructed
    /\ ParametersConstructed
    /\ SrtSourceIdle
    /\ VstSourceIdle

NextParameters ==
    \/ set_plugin_parameter
    \/ get_plugin_parameters

SpecParameters == InitParameters /\ [][NextParameters]_vars

----------------------------------------------------------------------------
\* VSTPluginChain: the members' parameters, read and set through the chain

\* The parameter names and values passed to the chain's
\* set_plugin_parameter: one of the plugin's names and one more; MaxValue
\* is outside the plugin's range.
ChainParamIds == {"gain", "invalid_param"}
ChainValues == {0, MaxValue}

\* chain_set_plugin_parameter with only the upper end of the index range
\* tested: a negative index counts from the end of the list, as
\* self.plugins[index] does.
chain_set_plugin_parameter_upper_only ==
    /\ ChainReady
    /\ \E index \in -1..MaxPlugins, param_id \in ChainParamIds,
          value \in ChainValues :
          IF ~(-Len(plugins) <= index /\ index < Len(plugins))
          THEN /\ chain_call' = [op |-> "set_plugin_parameter", i |-> index,
                                 outcome |-> "IndexError"]
               /\ UNCHANGED plugins
          ELSE LET at == IF index < 0 THEN Len(plugins) + index + 1
                         ELSE index + 1
                   r == set_parameter(plugins[at].parameters, param_id, value)
               IN  /\ plugins' = [plugins EXCEPT
                                     ![at].parameters = r.parameters]
                   /\ chain_call' = [op |-> "set_plugin_parameter",
                                     i |-> index, outcome |-> r.outcome]
    /\ UNCHANGED <<chain_streaming, chain_log, chain_result, created>>
    /\ UNCHANGED <<session, last_call, estimator, plugin_parameters>>
    /\ UNCHANGED <<srt_source, vst_plugin>>

\* Lines 84-102: set_plugin_parameter(index, param_id, value).  An index
\* outside 0..len-1 raises IndexError; otherwise the call is passed to the
\* member, whose plugin may raise KeyError or ValueError.
chain_set_plugin_parameter ==
    /\ ChainReady
    /\ \E index \in -1..MaxPlugins, param_id \in ChainParamIds,
          value \in ChainValues :
          IF ~(0 <= index /\ index < Len(plugins))
          THEN /\ chain_call' = [op |-> "set_plugin_parameter", i |-> index,
                                 outcome |-> "IndexError"]
               /\ UNCHANGED plugins
          ELSE LET r == set_parameter(plugins[index + 1].parameters,
                                      param_id, value)
               IN  /\ plugins' = [plugins EXCEPT
                                     ![index + 1].parameters = r.parameters]
                   /\ chain_call' = [op |-> "set_plugin_parameter",
                                     i |-> index, outcome |-> r.outcome]
    /\ UNCHANGED <<chain_streaming, chain_log, chain_result, created>>
    /\ UNCHANGED <<session, last_call, estimator, plugin_parameters>>
    /\ UNCHANGED <<srt_source, vst_plugin>>

\* Lines 66-82: get_plugin_parameters(index).  An index outside 0..len-1
\* raises IndexError; otherwise the member's parameters are returned.
chain_get_plugin_parameters ==
    /\ ChainReady
    /\ \E index \in -1..MaxPlugins :
          IF ~(0 <= index /\ index < Len(plugins))
          THEN /\ chain_call' = [op |-> "get_plugin_parameters", i |-> index,
                                 outcome |-> "IndexError"]
               /\ UNCHANGED chain_result
          ELSE /\ chain_call' = [op |-> "get_plugin_parameters", i |-> index,
                                 outcome |-> "returned"]
               /\ chain_result' =
                     [input |-> <<index>>,
                      output |-> get_parameters(plugins[index + 1].parameters)]
    /\ UNCHANGED <<plugins, chain_streaming, chain_log, created>>
    /\ UNCHANGED <<session, last_call, estimator, plugin_parameters>>
    /\ UNCHANGED <<srt_source, vst_plugin>>

\* The chain with its members' parameters read and set through it.
NextChainParameters ==
    \/ add_plugin
    \/ remove_plugin
    \/ chain_start_stream
    \/ StartMember
    \/ StartDone
    \/ chain_set_plugin_parameter
    \/ chain_get_plugin_parameters

SpecChainParameters == InitChain /\ [][NextChainParameters]_vars

----------------------------------------------------------------------------
\* KeyDetector.get_vst_parameters / set_vst_parameter
\* (src/src/keydetector.py:159-183).  cfg.vst tells whether the session was
\* constructed with a plugin; parameters are those of its VSTStreamSource.

\* set_vst_parameter without the test of lines 181-182.
SessionSetParameterUnguarded(has_vst, params, param_id, value) ==
    set_parameter(params, param_id, value)

\* Lines 181-183: how set_vst_parameter returns and the parameters
\* afterwards.
SessionSetParameter(has_vst, params, param_id, value) ==
    IF ~has_vst
    THEN [outcome |-> "RuntimeError", parameters |-> params]
    ELSE set_parameter(params, param_id, value)

\* Lines 166-168.
SessionGetParameters(has_vst, params) ==
    IF has_vst THEN get_parameters(params) ELSE "None"

set_vst_parameter ==
    /\ \E param_id \in ParamIds, value \in -1..MaxValue :
          LET r == SessionSetParameter(cfg.vst, parameters, param_id, value)
          IN  /\ parameters' = r.parameters
              /\ param_call' = [op |-> "set_vst_parameter",
                                param_id |-> param_id, value |-> value,
                                outcome |-> r.outcome]
    /\ UNCHANGED <<session, last_call, estimator, chain>>
    /\ UNCHANGED <<srt_source, vst_plugin>>

get_vst_parameters ==
    /\ param_call' = [op |-> "get_vst_parameters",
                      outcome |-> "returned",
                      result |-> SessionGetParameters(cfg.vst, parameters)]
    /\ UNCHANGED parameters
    /\ UNCHANGED <<session, last_call, estimator, chain>>
    /\ UNCHANGED <<srt_source, vst_plugin>>

\* A session constructed with or without a plugin, never started.
InitSessionParameters ==
    /\ cfg \in [srt : {FALSE}, vst : BOOLEAN, listener : {FALSE},
                required_samples : {0}, block_size : {1}]
    /\ SessionConstructed
    /\ EstimatorIdle
    /\ ChainConstructed
    /\ ParametersConstructed
    /\ SrtSourceIdle
    /\ VstSourceIdle

NextSessionParameters ==
    \/ set_vst_parameter
    \/ get_vst_parameters

SpecSessionParameters ==
    InitSessionParameters /\ [][NextSessionParameters]_vars

----------------------------------------------------------------------------
\* SRTStreamSource on its own (src/src/srt_stream.py)

\* Length of one decoded frame, samples one decode thread decodes, blocks
\* on the queue before the decode thread pauses, and decode threads that
\* outlive a timed-out join.
MaxFrame == 3
MaxDecoded == 4
MaxQueued == 2
MaxStale == 1

\* The URLs a source is constructed with: "srt://h", "SRT://h", "udp://h",
\* "srt" (no colon), "s/t:h" (a colon after a character no scheme has) and
\* "://h".
Urls ==
    { SrtUrl,
      <<"S", "R", "T", ":", "/", "/", "h">>,
      <<"u", "d", "p", ":", "/", "/", "h">>,
      <<"s", "r", "t">>,
      <<"s", "/", "t", ":", "h">>,
      <<":", "/", "/", "h">> }

\* str.lower on the letters of these URLs.
Lower(c) ==
    CASE c = "S" -> "s"
      [] c = "R" -> "r"
      [] c = "T" -> "t"
      [] OTHER -> c

\* urllib.parse.scheme_chars, restricted to the characters of these URLs.
scheme_chars == {"s", "r", "t", "S", "R", "T", "u", "d", "p", "h"}

\* str.find(':'), 0-based, -1 if there is none.
FindColon(u) ==
    IF \E i \in 1..Len(u) : u[i] = ":"
    THEN (CHOOSE i \in 1..Len(u) :
             /\ u[i] = ":"
             /\ \A j \in 1..(i - 1) : u[j] # ":") - 1
    ELSE -1

\* urlparse(url).scheme: the characters before the first colon, lowered, if
\* there is at least one and all of them are scheme characters; otherwise
\* the empty string.
Scheme(u) ==
    LET i == FindColon(u)
    IN  IF i > 0 /\ \A j \in 1..i : u[j] \in scheme_chars
        THEN [j \in 1..i |-> Lower(u[j])]
        ELSE <<>>

\* The constructor without lines 29-31.
SrtInitUnvalidated(u) == "returned"

\* Lines 28-31: how SRTStreamSource(url) returns.
SrtInit(u) ==
    IF Scheme(u) # <<"s", "r", "t">> THEN "ValueError" ELSE "returned"

\* The samples of one decode thread are numbered in decode order; this is
\* the frame of k samples that follows the first n.
Frame(n, k) == [i \in 1..k |-> n + i]

\* Lines 101-104 with the loop test "len(audio_buffer) > self.block_size".
RECURSIVE TakeBlocksStrict(_, _)
TakeBlocksStrict(buf, n) ==
    IF Len(buf) > n
    THEN LET r == TakeBlocksStrict(SubSeq(buf, n + 1, Len(buf)), n)
         IN  [blocks |-> <<SubSeq(buf, 1, n)>> \o r.blocks, rest |-> r.rest]
    ELSE [blocks |-> <<>>, rest |-> buf]

\* Lines 101-104: while the buffer holds a block, its first block_size
\* samples are put on the queue and cut off the buffer.
RECURSIVE TakeBlocks(_, _)
TakeBlocks(buf, n) ==
    IF Len(buf) >= n
    THEN LET r == TakeBlocks(SubSeq(buf, n + 1, Len(buf)), n)
         IN  [blocks |-> <<SubSeq(buf, 1, n)>> \o r.blocks, rest |-> r.rest]
    ELSE [blocks |-> <<>>, rest |-> buf]

\* The source exists: its constructor returned.
SrtUsable == SrtInit(url) = "returned"

\* The caller is inside stop_stream.
SrtStopping == srt_call.outcome \in {"joining", "closing"}

\* Lines 33-60: start_stream.  av.open may raise; the container may have no
\* audio stream (line 47 raises with the container open); Thread.start may
\* raise after the flag was set.  A decode thread that is still alive when
\* _thread is assigned again lives on unreferenced.
srt_start_stream ==
    /\ SrtUsable
    /\ ~SrtStopping
    /\ IF _streaming
       THEN /\ srt_call' = [op |-> "start_stream", outcome |-> "no-op"]
            /\ UNCHANGED <<_streaming, _container, _stream, _thread, stale,
                           audio_buffer, decoded, enqueued>>
       ELSE \E how \in {"ok", "open_fails", "no_audio", "thread_fails"} :
               /\ srt_call' = [op |-> "start_stream",
                               outcome |-> IF how = "ok" THEN "returned"
                                           ELSE "RuntimeError"]
               /\ _streaming' = (how = "ok")
               /\ _container' = IF how = "open_fails" THEN _container
                                ELSE "open"
               /\ _stream' = IF how \in {"open_fails", "no_audio"}
                             THEN _stream ELSE "audio"
               /\ IF how \in {"ok", "thread_fails"}
                  THEN /\ _thread = "running" => stale < MaxStale
                       /\ stale' = IF _thread = "running" THEN stale + 1
                                   ELSE stale
                       /\ _thread' = IF how = "ok" THEN "running"
                                     ELSE "unstarted"
                  ELSE UNCHANGED <<_thread, stale>>
               /\ IF how = "ok"
                  THEN /\ audio_buffer' = <<>>
                       /\ decoded' = 0
                       /\ enqueued' = <<>>
                  ELSE UNCHANGED <<audio_buffer, decoded, enqueued>>
    /\ UNCHANGED <<url, srt_block_size, srt_audio_queue, got>>
    /\ UNCHANGED <<session, last_call, estimator, chain, plugin_parameters,
                   vst_plugin>>

\* Lines 62-67: stop_stream is entered.  A source that is not streaming is
\* left as it is; otherwise the flag is cleared and the thread joined.
srt_stop_stream ==
    /\ SrtUsable
    /\ ~SrtStopping
    /\ IF ~_streaming
       THEN /\ srt_call' = [op |-> "stop_stream", outcome |-> "no-op"]
            /\ UNCHANGED _streaming
       ELSE /\ srt_call' = [op |-> "stop_stream", outcome |-> "joining"]
            /\ _streaming' = FALSE
    /\ UNCHANGED <<url, srt_block_size, _container, _stream, _thread, stale,
                   srt_audio_queue, audio_buffer, decoded, enqueued, got>>
    /\ UNCHANGED <<session, last_call, estimator, chain, plugin_parameters,
                   vst_plugin>>

\* join(timeout=1.0) that returns only once the thread has ended.
SrtJoinUnbounded ==
    /\ srt_call.outcome = "joining"
    /\ _thread # "running"
    /\ srt_call' = [srt_call EXCEPT !.outcome = "closing"]
    /\ UNCHANGED <<url, srt_block_size, _streaming, _container, _stream,
                   _thread, stale, srt_audio_queue, audio_buffer, decoded,
                   enqueued, got>>
    /\ UNCHANGED <<session, last_call, estimator, chain, plugin_parameters,
                   vst_plugin>>

\* Lines 68-69: join(timeout=1.0) returns, because the thread has ended or
\* because the second is over.
SrtJoin ==
    /\ srt_call.outcome = "joining"
    /\ srt_call' = [srt_call EXCEPT !.outcome = "closing"]
    /\ UNCHANGED <<url, srt_block_size, _streaming, _container, _stream,
                   _thread, stale, srt_audio_queue, audio_buffer, decoded,
                   enqueued, got>>
    /\ UNCHANGED <<session, last_call, estimator, chain, plugin_parameters,
                   vst_plugin>>

\* Lines 71-74: the container is closed and the references dropped; close()
\* may raise, which leaves the references.
SrtClose ==
    /\ srt_call.outcome = "closing"
    /\ IF _container = "none"
       THEN /\ srt_call' = [srt_call EXCEPT !.outcome = "returned"]
            /\ UNCHANGED <<_container, _stream>>
       ELSE \E raises \in BOOLEAN :
               IF raises
               THEN /\ srt_call' = [srt_call EXCEPT !.outcome = "raised"]
                    /\ UNCHANGED <<_container, _stream>>
               ELSE /\ srt_call' = [srt_call EXCEPT !.outcome = "returned"]
                    /\ _container' = "none"
                    /\ _stream' = "none"
    /\ UNCHANGED <<url, srt_block_size, _streaming, _thread, stale,
                   srt_audio_queue, audio_buffer, decoded, enqueued, got>>
    /\ UNCHANGED <<session, last_call, estimator, chain, plugin_parameters,
                   vst_plugin>>

\* Lines 85-106, one frame of the decode loop while the flag is set: the
\* samples are appended to the carry-over and every complete block is put
\* on the queue.
SrtFrame ==
    /\ _thread = "running"
    /\ _streaming
    /\ Len(srt_audio_queue) < MaxQueued
    /\ \E k \in 0..MaxFrame :
          /\ decoded + k <= MaxDecoded
          /\ LET r == TakeBlocks(audio_buffer \o Frame(decoded, k),
                                 srt_block_size)
             IN  /\ audio_buffer' = r.rest
                 /\ enqueued' = enqueued \o r.blocks
                 /\ srt_audio_queue' = srt_audio_queue \o r.blocks
          /\ decoded' = decoded + k
    /\ UNCHANGED <<url, srt_block_size, _streaming, _container, _stream,
                   _thread, stale, got, srt_call>>
    /\ UNCHANGED <<session, last_call, estimator, chain, plugin_parameters,
                   vst_plugin>>

\* Lines 86-87: a frame arrives while the flag is clear; the thread leaves
\* the loop and ends.
SrtBreak ==
    /\ _thread = "running"
    /\ ~_streaming
    /\ _thread' = "exited"
    /\ UNCHANGED <<url, srt_block_size, _streaming, _container, _stream,
                   stale, srt_audio_queue, audio_buffer, decoded, enqueued,
                   got, srt_call>>
    /\ UNCHANGED <<session, last_call, estimator, chain, plugin_parameters,
                   vst_plugin>>

\* Line 85: the stream ends; the loop is over and the thread ends with the
\* flag as it is.
SrtStreamEnds ==
    /\ _thread = "running"
    /\ _thread' = "exited"
    /\ UNCHANGED <<url, srt_block_size, _streaming, _container, _stream,
                   stale, srt_audio_queue, audio_buffer, decoded, enqueued,
                   got, srt_call>>
    /\ UNCHANGED <<session, last_call, estimator, chain, plugin_parameters,
                   vst_plugin>>

\* Lines 108-110: decoding raises; the error is printed, the flag cleared
\* and the thread ends.
SrtDecodeRaises ==
    /\ _thread = "running"
    /\ _thread' = "exited"
    /\ _streaming' = FALSE
    /\ UNCHANGED <<url, srt_block_size, _container, _stream, stale,
                   srt_audio_queue, audio_buffer, decoded, enqueued, got,
                   srt_call>>
    /\ UNCHANGED <<session, last_call, estimator, chain, plugin_parameters,
                   vst_plugin>>

\* A decode thread that outlived its join ends: its container was closed
\* under it, so its loop is over or raises, and lines 108-110 then clear
\* the flag whoever set it.
StaleExits ==
    /\ stale > 0
    /\ stale' = stale - 1
    /\ \E raises \in BOOLEAN :
          _streaming' = IF raises THEN FALSE ELSE _streaming
    /\ UNCHANGED <<url, srt_block_size, _container, _stream, _thread,
                   srt_audio_queue, audio_buffer, decoded, enqueued, got,
                   srt_call>>
    /\ UNCHANGED <<session, last_call, estimator, chain, plugin_parameters,
                   vst_plugin>>

\* Lines 112-122: get_audio_block, called by the consumer at any time.
get_audio_block ==
    /\ SrtUsable
    /\ IF srt_audio_queue = <<>>
       THEN /\ got' = <<>>
            /\ UNCHANGED srt_audio_queue
       ELSE /\ got' = <<Head(srt_audio_queue)>>
            /\ srt_audio_queue' = Tail(srt_audio_queue)
    /\ UNCHANGED <<url, srt_block_size, _streaming, _container, _stream,
                   _thread, stale, audio_buffer, decoded, enqueued,
                   srt_call>>
    /\ UNCHANGED <<session, last_call, estimator, chain, plugin_parameters,
                   vst_plugin>>

\* SRTStreamSource(url, block_size=...) has been called.
InitSrt ==
    /\ SessionIdle
    /\ EstimatorIdle
    /\ ChainConstructed
    /\ ParametersConstructed
    /\ VstSourceIdle
    /\ url \in Urls
    /\ srt_block_size \in 1..MaxBlockLen
    /\ _streaming = FALSE
    /\ _container = "none"
    /\ _stream = "none"
    /\ _thread = "none"
    /\ stale = 0
    /\ srt_audio_queue = <<>>
    /\ audio_buffer = <<>>
    /\ decoded = 0
    /\ enqueued = <<>>
    /\ got = <<>>
    /\ srt_call = [op |-> "__init__", outcome |-> SrtInit(url)]

NextSrt ==
    \/ srt_start_stream
    \/ srt_stop_stream
    \/ SrtJoin
    \/ SrtClose
    \/ SrtFrame
    \/ SrtBreak
    \/ SrtStreamEnds
    \/ SrtDecodeRaises
    \/ StaleExits
    \/ get_audio_block

SpecSrt == InitSrt /\ [][NextSrt]_vars

----------------------------------------------------------------------------
\* VSTStreamSource.start_stream / stop_stream on its own
\* (src/src/vst_stream.py:45-59)

\* Calls of plugin.resume()/suspend() recorded in one behaviour.
MaxCalls == 3

\* start_stream without the test of lines 47-48.
SourceStartedUnguarded(s) ==
    [streaming |-> TRUE, plugin_calls |-> Append(s.plugin_calls, "resume")]

\* Lines 47-51: the source after start_stream.
SourceStarted(s) ==
    IF s.streaming THEN s
    ELSE [streaming |-> TRUE,
          plugin_calls |-> Append(s.plugin_calls, "resume")]

\* Lines 55-59: the source after stop_stream.
SourceStopped(s) ==
    IF ~s.streaming THEN s
    ELSE [streaming |-> FALSE,
          plugin_calls |-> Append(s.plugin_calls, "suspend")]

\* start_stream is called; plugin.resume(), if it is called, may raise.
vst_start_stream ==
    /\ Len(vst_source.plugin_calls) <= MaxCalls
    /\ vst_source' = SourceStarted(vst_source)
    /\ \E raises \in BOOLEAN :
          /\ raises => vst_source'.plugin_calls # vst_source.plugin_calls
          /\ vst_call' = [op |-> "start_stream",
                          outcome |-> IF raises THEN "raised"
                                      ELSE "returned"]
    /\ UNCHANGED <<session, last_call, estimator, chain, plugin_parameters,
                   srt_source, vst_audio_queue>>

\* stop_stream is called; plugin.suspend(), if it is called, may raise.
vst_stop_stream ==
    /\ Len(vst_source.plugin_calls) <= MaxCalls
    /\ vst_source' = SourceStopped(vst_source)
    /\ \E raises \in BOOLEAN :
          /\ raises => vst_source'.plugin_calls # vst_source.plugin_calls
          /\ vst_call' = [op |-> "stop_stream",
                          outcome |-> IF raises THEN "raised"
                                      ELSE "returned"]
    /\ UNCHANGED <<session, last_call, estimator, chain, plugin_parameters,
                   srt_source, vst_audio_queue>>

\* Number of blocks process_block puts on one source's audio_queue in one
\* behaviour.
MaxProcessed == 3

\* The input blocks of process_block: one sample each.
InputBlocks == {FreshBlock(p, 1) : p \in 0..1}

\* Lines 71-80: process_block.  A source that is not streaming returns the
\* input and enqueues nothing; a streaming source runs the plugin, which
\* may raise, puts the output on audio_queue and returns it.  queue.Queue()
\* of line 21 has no maxsize, so put never blocks, and nothing reads the
\* queue.
vst_process_block ==
    /\ Len(vst_audio_queue) < MaxProcessed
    /\ \E input_data \in InputBlocks, raises \in BOOLEAN :
          /\ raises => vst_source.streaming
          /\ vst_audio_queue' =
                IF vst_source.streaming /\ ~raises
                THEN Append(vst_audio_queue, PluginProcess(input_data))
                ELSE vst_audio_queue
          /\ vst_call' = [op |-> "process_block",
                          outcome |-> IF raises THEN "raised"
                                      ELSE "returned"]
    /\ UNCHANGED vst_source
    /\ UNCHANGED <<session, last_call, estimator, chain, plugin_parameters,
                   srt_source>>

\* A VSTStreamSource on its own: started, stopped and fed blocks.
InitVstSource ==
    /\ SessionIdle
    /\ EstimatorIdle
    /\ ParametersConstructed
    /\ ChainConstructed
    /\ SrtSourceIdle
    /\ VstSourceIdle

NextVstSource ==
    \/ vst_start_stream
    \/ vst_stop_stream
    \/ vst_process_block

SpecVstSource == InitVstSource /\ [][NextVstSource]_vars

----------------------------------------------------------------------------
\* The three sources side by side: an SRTStreamSource, a VSTStreamSource
\* and a VSTPluginChain.  The objects share no state, so a behaviour
\* exercises one of them and leaves the other two as constructed.

InitSources ==
    /\ SessionIdle
    /\ EstimatorIdle
    /\ ParametersConstructed
    /\ ChainConstructed
    /\ SrtSourceIdle
    /\ VstSourceIdle

\* The objects other than the SRT source, the VST source and the chain are
\* as constructed.
OnlySrt == ChainConstructed /\ VstSourceIdle
OnlyVst == ChainConstructed /\ SrtSourceIdle
OnlyChain == SrtSourceIdle /\ VstSourceIdle

NextSources ==
    \/ OnlySrt /\ srt_start_stream
    \/ OnlySrt /\ srt_stop_stream
    \/ OnlySrt /\ SrtJoin
    \/ OnlySrt /\ SrtClose
    \/ OnlySrt /\ SrtFrame
    \/ OnlySrt /\ SrtBreak
    \/ OnlySrt /\ SrtStreamEnds
    \/ OnlySrt /\ SrtDecodeRaises
    \/ OnlySrt /\ StaleExits
    \/ OnlySrt /\ get_audio_block
    \/ OnlyVst /\ vst_start_stream
    \/ OnlyVst /\ vst_stop_stream
    \/ OnlyChain /\ add_plugin
    \/ OnlyChain /\ remove_plugin
    \/ OnlyChain /\ chain_start_stream
    \/ OnlyChain /\ StartMember
    \/ OnlyChain /\ StartDone
    \/ OnlyChain /\ chain_stop_stream
    \/ OnlyChain /\ StopMember
    \/ OnlyChain /\ StopDone
    \/ OnlyChain /\ chain_process_block

SpecSources == InitSources /\ [][NextSources]_vars

----------------------------------------------------------------------------
\* stop_stream of the session and of a stand-alone SRT source, with the
\* scheduling the stopping caller can rely on: its own calls proceed and
\* join(timeout=1.0) returns after a second at the latest.  Nothing is
\* assumed about the analysis and decode threads, which may stay where they
\* are for ever.  A behaviour exercises the session or the SRT source.

\* The sessions of the two termination specifications: live and network
\* mode, with a listener (a cycle without a change of key runs as it does
\* without one), without a processor, and with a window and blocks of one
\* sample (neither the joins nor the loop test depend on them).
InitTermination ==
    /\ cfg \in [srt : BOOLEAN, vst : {FALSE}, listener : {TRUE},
                required_samples : {1}, block_size : {1}]
    /\ SessionConstructed
    /\ EstimatorIdle
    /\ ChainConstructed
    /\ ParametersConstructed
    /\ SrtSourceIdle
    /\ VstSourceIdle

\* The SRT source is as constructed; the session is as constructed.
SrtUntouched == SrtSourceIdle
SessionUntouched ==
    /\ cfg = [srt |-> FALSE, vst |-> FALSE, listener |-> TRUE,
              required_samples |-> 1, block_size |-> 1]
    /\ SessionConstructed

NextStop ==
    \/ SrtUntouched /\ start_stream
    \/ SrtUntouched /\ stop_stream
    \/ SrtUntouched /\ stop_stream_join
    \/ SrtUntouched /\ audio_callback
    \/ SrtUntouched /\ SrtDecode
    \/ SrtUntouched /\ SrtDecodeFails
    \/ SrtUntouched /\ _process_stream
    \/ SessionUntouched /\ srt_start_stream
    \/ SessionUntouched /\ srt_stop_stream
    \/ SessionUntouched /\ SrtJoin
    \/ SessionUntouched /\ SrtClose
    \/ SessionUntouched /\ SrtFrame
    \/ SessionUntouched /\ SrtBreak
    \/ SessionUntouched /\ SrtStreamEnds
    \/ SessionUntouched /\ SrtDecodeRaises
    \/ SessionUntouched /\ StaleExits
    \/ SessionUntouched /\ get_audio_block

SpecStopFair ==
    /\ InitTermination
    /\ [][NextStop]_vars
    /\ WF_vars(stop_stream_join)
    /\ WF_vars(SrtJoin)
    /\ WF_vars(SrtClose)

----------------------------------------------------------------------------
\* The analysis loop with the wait inside audio_queue.get(timeout=1.0) made
\* visible, and with the scheduling the loop can rely on: an analysis
\* thread that can take a step takes one (the estimator and the listener
\* return or raise, the timed get returns after a second at the latest).

\* Line 201 in live mode: the loop test has passed and the queue is empty;
\* the thread waits inside get.
Wait(t) ==
    /\ threads[t].pc = "loop"
    /\ streaming
    /\ ~cfg.srt
    /\ audio_queue = <<>>
    /\ threads' = [threads EXCEPT ![t].pc = "get"]
    /\ UNCHANGED <<estimator, chain, plugin_parameters>>
    /\ UNCHANGED <<srt_source, vst_plugin>>
    /\ UNCHANGED listener_raised
    /\ UNCHANGED <<cfg, streaming, stream, srt, srt_queue, vst_streaming,
                   audio_queue, stream_buffer, current_key, caller, produced,
                   appended, last_call, stop_log>>

\* The end of the wait for audio_queue.get() without a timeout: only a
\* block ends it.
GetReturnsBlocking(t) ==
    /\ threads[t].pc = "get"
    /\ audio_queue # <<>>
    /\ audio_queue' = Tail(audio_queue)
    /\ Consume(t, Head(audio_queue))
    /\ UNCHANGED <<estimator, chain, plugin_parameters>>
    /\ UNCHANGED <<srt_source, vst_plugin>>
    /\ UNCHANGED listener_raised
    /\ UNCHANGED <<cfg, streaming, stream, srt, srt_queue, vst_streaming,
                   current_key, caller, produced, last_call, stop_log>>

\* Lines 201 and 222-223: the wait ends.  With a block on the queue the
\* block is taken and lines 204-215 follow (the processor may raise, lines
\* 224-225); with none, queue.Empty is raised after the timeout and the
\* loop continues at its test.
GetReturns(t) ==
    /\ threads[t].pc = "get"
    /\ IF audio_queue = <<>>
       THEN /\ threads' = [threads EXCEPT ![t] = NewThread]
            /\ UNCHANGED <<audio_queue, stream_buffer, appended>>
       ELSE /\ audio_queue' = Tail(audio_queue)
            /\ \E raises \in BOOLEAN :
                  /\ raises => (cfg.vst /\ vst_streaming)
                  /\ IF raises
                     THEN /\ threads' = [threads EXCEPT ![t] = NewThread]
                          /\ UNCHANGED <<stream_buffer, appended>>
                     ELSE Consume(t, Head(audio_queue))
    /\ UNCHANGED <<estimator, chain, plugin_parameters>>
    /\ UNCHANGED <<srt_source, vst_plugin>>
    /\ UNCHANGED listener_raised
    /\ UNCHANGED <<cfg, streaming, stream, srt, srt_queue, vst_streaming,
                   current_key, caller, produced, last_call, stop_log>>

timed_get ==
    \E t \in 1..Len(threads) :
        \/ Wait(t)
        \/ GetReturns(t)

\* Any step of analysis thread t.
ThreadStep(t) ==
    /\ t <= Len(threads)
    /\ \/ LoopExit(t)
       \/ Poll(t)
       \/ Analyze(t)
       \/ CycleRaises(t)
       \/ ListenerReturns(t)
       \/ Wait(t)
       \/ GetReturns(t)

NextLoop ==
    \/ start_stream
    \/ stop_stream
    \/ stop_stream_join
    \/ audio_callback
    \/ SrtDecode
    \/ SrtDecodeFails
    \/ _process_stream
    \/ timed_get

SpecLoopFair ==
    /\ InitTermination
    /\ [][NextLoop]_vars
    /\ \A t \in 1..MaxThreads : WF_vars(ThreadStep(t))

----------------------------------------------------------------------------
\* The session with every failure of an analysis cycle: the estimator and
\* the listener raise (CycleRaises) and so does the processor.  The
\* sessions have a processor and a listener, a window of one sample and
\* blocks of one sample.

processor_raises == \E t \in 1..Len(threads) : ProcessorRaises(t)

InitCycle ==
    /\ cfg \in [srt : BOOLEAN, vst : {TRUE}, listener : {TRUE},
                required_samples : {1}, block_size : {1}]
    /\ SessionConstructed
    /\ EstimatorIdle
    /\ ChainConstructed
    /\ ParametersConstructed
    /\ SrtSourceIdle
    /\ VstSourceIdle

NextCycle ==
    \/ start_stream
    \/ stop_stream
    \/ stop_stream_join
    \/ audio_callback
    \/ SrtDecode
    \/ SrtDecodeFails
    \/ VstStartStream
    \/ _process_stream
    \/ processor_raises

SpecCycle == InitCycle /\ [][NextCycle]_vars

----------------------------------------------------------------------------
\* Sessions that are stopped and started again while the window is filling

\* A session with a processor, without a listener, with a window of one
\* or two samples fed by blocks of one or two samples.
InitRestart ==
    /\ cfg \in [srt : BOOLEAN, vst : {TRUE}, listener : {FALSE},
                required_samples : 1..2, block_size : 1..2]
    /\ SessionConstructed
    /\ EstimatorIdle
    /\ ChainConstructed
    /\ ParametersConstructed
    /\ SrtSourceIdle
    /\ VstSourceIdle

SpecRestart == InitRestart /\ [][Next]_vars

----------------------------------------------------------------------------
\* The analysis loop with the listener calls that raised kept on record

\* Lines 219 and 224-225: the listener raises; the exception is printed,
\* line 220 is skipped and the loop continues.  The call's arguments are
\* put on record for the thread.
ListenerRaises(t) ==
    /\ threads[t].pc = "listener"
    /\ threads' = [threads EXCEPT ![t] = NewThread]
    /\ listener_raised' = listener_raised \cup {<<t, threads[t].args>>}
    /\ UNCHANGED <<estimator, chain, plugin_parameters>>
    /\ UNCHANGED <<srt_source, vst_plugin>>
    /\ UNCHANGED <<cfg, streaming, stream, srt, srt_queue, vst_streaming,
                   audio_queue, stream_buffer, current_key, caller, produced,
                   appended, last_call, stop_log>>

\* Lines 216-220 of the thread's next cycle: _analyze_audio returns a key;
\* the record of the thread's earlier cycle is dropped.
Estimate(t) ==
    /\ threads[t].pc = "analyze"
    /\ \E new_key \in Keys : Notify(t, new_key)
    /\ listener_raised' = {e \in listener_raised : e[1] # t}
    /\ UNCHANGED <<estimator, chain, plugin_parameters>>
    /\ UNCHANGED <<srt_source, vst_plugin>>
    /\ UNCHANGED <<cfg, streaming, stream, srt, srt_queue, vst_streaming,
                   audio_queue, stream_buffer, caller, produced, appended,
                   last_call, stop_log>>

\* A live session with a listener and a window of one sample.
InitNotify ==
    /\ cfg \in [srt : {FALSE}, vst : {FALSE}, listener : {TRUE},
                required_samples : {1}, block_size : {1}]
    /\ SessionConstructed
    /\ EstimatorIdle
    /\ ChainConstructed
    /\ ParametersConstructed
    /\ SrtSourceIdle
    /\ VstSourceIdle

notify_cycle ==
    \E t \in 1..Len(threads) :
        \/ LoopExit(t)
        \/ Poll(t)
        \/ Estimate(t)
        \/ ListenerRaises(t)
        \/ ListenerReturns(t)

NextNotify ==
    \/ start_stream
    \/ stop_stream
    \/ stop_stream_join
    \/ audio_callback
    \/ notify_cycle

SpecNotify == InitNotify /\ [][NextNotify]_vars

----------------------------------------------------------------------------
\* Properties of the sliding window

\* C1: after any sequence of appends by the analysis loop, for every
\* required_samples >= 0 (0 included) and every block length, the length
\* of stream_buffer is at most required_samples.
C1_WindowLengthBound == Len(stream_buffer) <= cfg.required_samples

\* C2: stream_buffer is always the last min(total appended,
\* required_samples) samples of the in-order concatenation of all appended
\* blocks.
C2_WindowContent == stream_buffer = LastN(appended, cfg.required_samples)

----------------------------------------------------------------------------
\* Properties of the change listener

\* C3: with a registered listener, the listener is invoked exactly in the
\* cycles whose estimate differs from the key stored before the cycle, with
\* the arguments (key stored before the cycle, new estimate), and the stored
\* key never changes in a cycle that did not invoke it.
C3_ListenerOncePerChange ==
    [][cfg.listener =>
         /\ \A t \in 1..Len(threads') :
               threads'[t].pc = "listener" =>
                   /\ threads'[t].args
                          = <<threads'[t].before, threads'[t].new_key>>
                   /\ threads'[t].new_key # threads'[t].before
         /\ current_key' # current_key =>
               \E t \in 1..Len(threads) :
                   /\ threads[t].pc = "listener"
                   /\ threads'[t].pc = "loop"
                   /\ threads[t].args = <<current_key, current_key'>>
                   /\ threads[t].before = current_key]_vars

\* C4: while the listener runs, current_key is still the old key it was
\* called with; the new key is stored only after the listener has returned.
C4_OldKeyDuringListener ==
    \A t \in 1..Len(threads) :
        threads[t].pc = "listener" => current_key = threads[t].args[1]

----------------------------------------------------------------------------
\* Properties of start_stream() and stop_stream()

\* C5: start_stream() on a streaming session opens no second source and
\* spawns no second analysis thread; stop_stream() on a session that is
\* not streaming stops, closes and joins nothing; a call that is a no-op
\* leaves the session as it was.
C5_StartStopIdempotent ==
    [][/\ (streaming /\ streaming') =>
             /\ Len(threads') = Len(threads)
             /\ stream' = stream
             /\ srt'.container = srt.container
             /\ srt'.thread \in {srt.thread, "exited"}
       /\ (~streaming /\ caller = "idle") =>
             /\ caller' = "idle"
             /\ stop_log' = stop_log
             /\ stream' \in {stream, "open", "active"}
             /\ srt.container = "open" => srt'.container = "open"
             /\ vst_streaming => vst_streaming'
       /\ (last_call' # last_call /\ last_call'.outcome = "no-op") =>
             UNCHANGED session]_vars

\* C5 witness: a second start_stream() was made on a streaming session.
C5_Witness ==
    /\ last_call = [op |-> "start_stream", outcome |-> "no-op"]
    /\ streaming
    /\ Len(threads) = 1

\* The steps of a complete stop_stream(), in the order of lines 145-157.
StopOrder == <<"flag", "source", "join", "processor">>

IsPrefix(s, t) == Len(s) <= Len(t) /\ s = SubSeq(t, 1, Len(s))

Position(s, e) == CHOOSE i \in 1..Len(s) : s[i] = e

StopReturned == last_call = [op |-> "stop_stream", outcome |-> "returned"]

C7_StopNeverRaises ==
    (last_call.op = "stop_stream" /\ caller = "idle"
        /\ last_call.outcome # "no-op") =>
        /\ last_call.outcome = "returned"
        /\ ~streaming
        /\ stop_log = IF cfg.vst THEN StopOrder ELSE SubSeq(StopOrder, 1, 3)

StartFailures == {"open_fails", "start_fails"}

\* C8: when opening the source fails in start_stream(), the call ends by
\* raising, the session is still not streaming and no analysis thread was
\* spawned.
C8_FailedStartStaysIdle ==
    [][(last_call' # last_call /\ last_call'.op = "start_stream"
          /\ last_call'.outcome \in StartFailures) =>
             /\ ~streaming /\ ~streaming'
             /\ threads' = threads
             /\ caller' = "idle"]_vars

\* C8 witness: a start_stream() has failed opening the source.
C8_Witness ==
    /\ last_call.op = "start_stream"
    /\ last_call.outcome \in StartFailures
    /\ ~streaming

\* C9: with a processor configured, after start_stream() returns the
\* session is streaming and the processor is started, and after
\* stop_stream() returns neither is streaming.
C9_ProcessorFollowsSession ==
    cfg.vst =>
        /\ last_call = [op |-> "start_stream", outcome |-> "returned"] =>
              (streaming /\ vst_streaming)
        /\ StopReturned => (~streaming /\ ~vst_streaming)

\* C10: with a processor configured, every sample appended to the window
\* went through the processor exactly once.
C10_ProcessedExactlyOnce ==
    cfg.vst => \A i \in 1..Len(appended) : appended[i].proc = 1

----------------------------------------------------------------------------
\* Properties of the queues and of the analysis threads

\* C11: the queues between acquisition and analysis are bounded: whatever
\* the interleaving, also when the analysis thread stalls while the
\* producer keeps delivering, a queue never holds every block of a long
\* delivery, the excess being dropped.  (MaxSamples one-sample blocks are
\* the longest delivery explored.)
C11_QueuesBounded ==
    /\ Len(audio_queue) < MaxSamples
    /\ Len(srt_queue) < MaxSamples

AliveThreads == {t \in 1..Len(threads) : threads[t].pc # "dead"}

\* C12: across any sequence of start_stream()/stop_stream() calls at most
\* one analysis loop is executing at any time.
C12_SingleAnalysisLoop == Cardinality(AliveThreads) <= 1

\* C16: current_key is "Unknown" until the analysis loop stores its first
\* estimate and never again afterwards; it changes only by line 220 of a
\* cycle that then returns to the top of the loop, to an estimate, and
\* after a listener call to the estimate that call announced.
C16_CurrentKeyIsLastStored ==
    [][/\ current_key' = "Unknown" => current_key = "Unknown"
       /\ current_key' # current_key =>
             /\ current_key' \in Keys
             /\ \E t \in 1..Len(threads) :
                   /\ threads[t].pc \in {"analyze", "listener"}
                   /\ threads'[t].pc = "loop"
                   /\ threads[t].pc = "listener" =>
                          current_key' = threads[t].new_key]_vars

\* C16 witness: an estimate has been stored and a loop is still running.
C16_Witness ==
    /\ current_key \in Keys
    /\ AliveThreads # {}
    /\ streaming

----------------------------------------------------------------------------
\* Properties of the estimator

\* C13: a window whose averaged chroma vector sums to zero makes the
\* estimator return "Unknown", never a "<Name> <mode>" label.
C13_SilentIsUnknown ==
    (detected # "none" /\ chroma_means # <<>> /\ Sum(chroma_means) = 0)
        => detected = "Unknown"

\* The 24 candidates, and the score the estimator computed for one.
Candidates == [key_idx : Rotations, mode : {"major", "minor"}]

ScoreAt(c) == correlations[c.mode][c.key_idx + 1]

\* a >= b on floats.
Geq(a, b) == ~a.nan /\ ~b.nan /\ ~Gt(b, a)

\* C14: for every chroma vector with non-zero sum the returned candidate
\* scores at least as much as each of the other 23 candidates.
C14_MaximumCorrelation ==
    (detected # "none" /\ chroma_means # <<>> /\ Sum(chroma_means) # 0)
        => \E c \in Candidates :
              /\ KeyLabel(c) = detected
              /\ \A d \in Candidates \ {c} : Geq(ScoreAt(c), ScoreAt(d))

\* The twelve candidates of mode m.
ModeCandidates(m) == {[key_idx |-> r, mode |-> m] : r \in Rotations}

\* Candidate c scores the most among the candidates of its mode.
BestOfMode(c) ==
    \A d \in ModeCandidates(c.mode) : Geq(ScoreAt(c), ScoreAt(d))

\* Some candidate of mode m that scores the most in its mode.
BestOf(m) == CHOOSE c \in ModeCandidates(m) : BestOfMode(c)

\* The best major score equals the best minor score.
ModesTie == Eq(ScoreAt(BestOf("major")), ScoreAt(BestOf("minor")))

\* Candidate c is the best of its mode with the lowest index.
LowestIndexOfMode(c) ==
    \A d \in ModeCandidates(c.mode) :
        /\ Geq(ScoreAt(c), ScoreAt(d))
        /\ d.key_idx < c.key_idx => Gt(ScoreAt(c), ScoreAt(d))

\* The selection has run on score lists given to it.
Selected == detected # "none" /\ chroma_means = <<>>

\* C15 as stated: on a tie between the best major and the best minor score
\* the major candidate is returned; among tied rotations of the winning
\* mode the lowest pitch-class index is returned.
C15_MajorOnTie ==
    Selected =>
        \E c \in Candidates :
            /\ KeyLabel(c) = detected
            /\ ModesTie => c.mode = "major"
            /\ LowestIndexOfMode(c)

\* C15 as the code has it: on a tie between the best major and the best
\* minor score the minor candidate is returned; among tied rotations of the
\* winning mode the lowest pitch-class index is returned.
C15_MinorOnTie ==
    Selected =>
        \E c \in Candidates :
            /\ KeyLabel(c) = detected
            /\ ModesTie => c.mode = "minor"
            /\ LowestIndexOfMode(c)

\* The modes tie, several minor rotations share the best score, and the
\* lowest of them, which is not rotation 0, was returned.
C15_Witness ==
    /\ Selected
    /\ ModesTie
    /\ detected = "C# minor"
    /\ \E c \in Candidates :
           c.mode = "minor" /\ c.key_idx > 1 /\ BestOfMode(c)


----------------------------------------------------------------------------
\* Properties of the plugin chain

\* PN.process_block(... P1.process_block(x) ...) for the members ps.
RECURSIVE NestedOutput(_, _)
NestedOutput(ps, x) ==
    IF ps = <<>> THEN x
    ELSE MemberOutput(ps[Len(ps)],
                      NestedOutput(SubSeq(ps, 1, Len(ps) - 1), x))

\* The last chain call was process_block on a started chain.
ProcessedByStartedChain ==
    chain_call.op = "process_block" /\ chain_streaming

\* C18: on a started chain process_block(x) equals
\* PN.process_block(...P1.process_block(x)...); with every member started
\* each plugin is applied exactly once, in the order of insertion.
C18_ChainComposition ==
    ProcessedByStartedChain =>
        /\ chain_result.output = NestedOutput(plugins, chain_result.input)
        /\ (\A p \in 1..Len(plugins) : plugins[p].streaming) =>
               /\ chain_result.output =
                      chain_result.input \o
                          [p \in 1..Len(plugins) |-> plugins[p].id]
               /\ \A p, q \in 1..Len(plugins) :
                      p < q => plugins[p].id < plugins[q].id

\* A started chain of two started members has processed a block.
C18_Witness ==
    /\ ProcessedByStartedChain
    /\ Len(plugins) = 2
    /\ \A p \in 1..Len(plugins) : plugins[p].streaming
    /\ chain_result.output = <<1, 2>>

\* No member is stopped while a later member is started.
StartedPrefix ==
    \A p, q \in 1..Len(plugins) :
        (p < q /\ plugins[q].streaming) => plugins[p].streaming

\* The member calls of a start_stream() or stop_stream() that got past its
\* guard.
LifecycleCall(op) ==
    /\ chain_call.op = op
    /\ chain_call.outcome \in {"running", "returned", "raised"}

\* C19: start_stream() calls the members in index order 0..N-1 and
\* stop_stream() in reverse order N-1..0, all of them when it returns, and
\* no member is ever stopped while a later member is started.
C19_LifecycleOrder ==
    /\ StartedPrefix
    /\ LifecycleCall("start_stream") =>
           /\ \A k \in 1..Len(chain_log) : chain_log[k] = <<"start", k - 1>>
           /\ chain_call.outcome = "returned" =>
                  Len(chain_log) = Len(plugins)
    /\ LifecycleCall("stop_stream") =>
           /\ \A k \in 1..Len(chain_log) :
                  chain_log[k] = <<"stop", Len(plugins) - k>>
           /\ chain_call.outcome = "returned" =>
                  Len(chain_log) = Len(plugins)

\* stop_stream() has stopped the last of two started members and not yet
\* the first.
C19_Witness ==
    /\ chain_call.op = "stop_stream"
    /\ chain_call.outcome = "running"
    /\ Len(plugins) = 2
    /\ chain_log = <<<<"stop", 1>>>>
    /\ plugins[1].streaming
    /\ ~plugins[2].streaming


----------------------------------------------------------------------------
\* Properties of the plugin parameters

\* The call that a step makes, when the step is a parameter call.
SetCalled(outcome) ==
    /\ param_call'.op = "set_plugin_parameter"
    /\ param_call'.outcome = outcome

\* C20: set_plugin_parameter with an unrecognised name fails with the
\* unknown-parameter error, with a recognised name and a value outside
\* [0, 1] it fails with the range error, and both leave every value
\* unchanged; a valid set stores the value, changes no other parameter, and
\* get_plugin_parameters() returns the stored values.
C20_ParameterSetting ==
    [][/\ param_call'.op = "set_plugin_parameter" =>
             LET known == param_call'.param_id \in DOMAIN parameters
                 valid == 0 <= param_call'.value /\ param_call'.value <= 2
             IN  /\ ~known => SetCalled("KeyError")
                 /\ (known /\ ~valid) => SetCalled("ValueError")
                 /\ (known /\ valid) => SetCalled("returned")
                 /\ ~SetCalled("returned") => parameters' = parameters
                 /\ SetCalled("returned") =>
                        parameters' =
                            [parameters EXCEPT ![param_call'.param_id] =
                                                   param_call'.value]
       /\ param_call'.op = "get_plugin_parameters" =>
             /\ param_call'.result = parameters
             /\ parameters' = parameters]_vars

\* get_plugin_parameters() has returned values that valid sets gave to all
\* three parameters.
C20_Witness ==
    /\ param_call.op = "get_plugin_parameters"
    /\ param_call.result.gain = 1
    /\ param_call.result.bypass = 2
    /\ param_call.result.mix = 0


----------------------------------------------------------------------------
\* Properties of the session's parameter calls

\* C21: without a processor get_vst_parameters() returns None and
\* set_vst_parameter() raises RuntimeError and changes nothing; with a
\* processor a set that returns stores the value, which is what
\* get_vst_parameters() returns.
C21_SessionParameters ==
    [][/\ param_call'.op = "set_vst_parameter" =>
             /\ UNCHANGED session
             /\ ~cfg.vst =>
                    /\ param_call'.outcome = "RuntimeError"
                    /\ parameters' = parameters
             /\ cfg.vst =>
                    /\ param_call'.outcome # "RuntimeError"
                    /\ IF param_call'.outcome = "returned"
                       THEN parameters' =
                                [parameters EXCEPT
                                    ![param_call'.param_id] =
                                        param_call'.value]
                       ELSE parameters' = parameters
                    /\ param_call'.outcome = "returned" <=>
                           /\ param_call'.param_id \in DOMAIN parameters
                           /\ 0 <= param_call'.value
                           /\ param_call'.value <= 2
       /\ param_call'.op = "get_vst_parameters" =>
             /\ UNCHANGED <<session, parameters>>
             /\ param_call'.result =
                    IF cfg.vst THEN parameters ELSE "None"]_vars

\* A session without a processor has refused a set.
C21_WitnessNoProcessor ==
    /\ ~cfg.vst
    /\ param_call.op = "set_vst_parameter"
    /\ param_call.outcome = "RuntimeError"

\* A session with a processor has read back gain 0.5 after setting it.
C21_Witness ==
    /\ cfg.vst
    /\ param_call.op = "get_vst_parameters"
    /\ param_call.result = [InitialParameters EXCEPT !.gain = 1]

----------------------------------------------------------------------------
\* Properties of the stand-alone SRT source

\* C22: a source whose URL scheme is not "srt" fails with ValueError in its
\* constructor, and no container is ever opened nor thread started for it.
C22_SchemeValidated ==
    Scheme(url) # <<"s", "r", "t">> =>
        /\ srt_call = [op |-> "__init__", outcome |-> "ValueError"]
        /\ _container = "none"
        /\ _thread = "none"
        /\ ~_streaming

\* The constructor has refused "udp://h".
C22_Witness ==
    /\ url = <<"u", "d", "p", ":", "/", "/", "h">>
    /\ srt_call = [op |-> "__init__", outcome |-> "ValueError"]

\* C23: once stop_stream() has returned on a source that was started (it
\* has a decode thread, running or ended), the container is closed and
\* _container and _stream are None.
C23_StoppedReleasesContainer ==
    (/\ srt_call.op = "stop_stream"
     /\ srt_call.outcome \in {"returned", "no-op"}
     /\ _thread \in {"running", "exited"})
        => (_container = "none" /\ _stream = "none")

\* The concatenation of a sequence of blocks.
RECURSIVE Flatten(_)
Flatten(blocks) ==
    IF blocks = <<>> THEN <<>>
    ELSE Flatten(SubSeq(blocks, 1, Len(blocks) - 1)) \o blocks[Len(blocks)]

\* The last m elements of a sequence.
Last(s, m) == SubSeq(s, Len(s) - m + 1, Len(s))

\* C25: every block the decode thread has put has block_size samples; the
\* blocks in put order followed by the carry-over are exactly the samples
\* decoded so far, in order; the carry-over is shorter than a block; the
\* queue holds blocks of block_size samples and ends with the thread's most
\* recent puts, in put order.
C25_BlockFraming ==
    /\ \A i \in 1..Len(enqueued) : Len(enqueued[i]) = srt_block_size
    /\ Flatten(enqueued) \o audio_buffer = Frame(0, decoded)
    /\ Len(audio_buffer) < srt_block_size
    /\ \A i \in 1..Len(srt_audio_queue) :
          Len(srt_audio_queue[i]) = srt_block_size
    /\ \E m \in 0..Len(srt_audio_queue) :
          /\ m <= Len(enqueued)
          /\ Last(srt_audio_queue, m) = Last(enqueued, m)
          /\ m < Len(srt_audio_queue) => m = Len(enqueued)

\* With blocks of two samples, four samples have been decoded and two
\* blocks put; the consumer has taken the first and the second is queued.
C25_Witness ==
    /\ srt_block_size = 2
    /\ decoded = 4
    /\ enqueued = << <<1, 2>>, <<3, 4>> >>
    /\ audio_buffer = <<>>
    /\ got = << <<1, 2>> >>
    /\ srt_audio_queue = << <<3, 4>> >>

\* A frame of three samples has left one sample as carry-over.
C25_WitnessCarryOver ==
    /\ srt_block_size = 2
    /\ decoded = 3
    /\ audio_buffer = <<3>>

----------------------------------------------------------------------------
\* Properties of the three sources

\* What start/stop of the SRT source may change besides the record of the
\* call.
SrtObject == <<url, srt_block_size, _streaming, _container, _stream, _thread,
               stale, srt_audio_queue, audio_buffer, decoded, enqueued>>

\* C26: on an SRTStreamSource, a VSTStreamSource and a VSTPluginChain,
\* start_stream while streaming and stop_stream while not streaming change
\* nothing: no flag, container, thread, plugin call or member is touched and
\* no member loop is entered.
C26_StartStopNoOps ==
    [][/\ (srt_start_stream /\ _streaming) => UNCHANGED SrtObject
       /\ (srt_stop_stream /\ ~_streaming) =>
             (UNCHANGED SrtObject /\ ~SrtStopping')
       /\ (vst_start_stream /\ vst_source.streaming) =>
             (UNCHANGED vst_source /\ vst_call'.outcome = "returned")
       /\ (vst_stop_stream /\ ~vst_source.streaming) =>
             (UNCHANGED vst_source /\ vst_call'.outcome = "returned")
       /\ (chain_start_stream /\ chain_streaming) =>
             /\ UNCHANGED <<plugins, chain_streaming, chain_log>>
             /\ chain_call'.outcome = "no-op"
       /\ (chain_stop_stream /\ ~chain_streaming) =>
             /\ UNCHANGED <<plugins, chain_streaming, chain_log>>
             /\ chain_call'.outcome = "no-op"
       /\ (StartMember \/ StopMember \/ StartDone \/ StopDone) =>
             chain_call.outcome = "running"]_vars

\* start_stream was called on an SRT source that was streaming.
C26_Witness ==
    /\ srt_call = [op |-> "start_stream", outcome |-> "no-op"]
    /\ _streaming
    /\ _thread = "running"

\* start_stream was called twice in a row on a VSTStreamSource.
C26_WitnessVst ==
    /\ vst_call.op = "start_stream"
    /\ vst_source = [streaming |-> TRUE,
                     plugin_calls |-> <<"start", "resume">>]

\* stop_stream was called on a chain with a member that is not streaming.
C26_WitnessChain ==
    /\ chain_call.op = "stop_stream"
    /\ chain_call.outcome = "no-op"
    /\ plugins # <<>>

----------------------------------------------------------------------------
\* Properties of the session under failures

\* C24: when the decode thread of the network source ends on a decode error
\* (no call of the session is involved), the session keeps running: its
\* flag, its analysis threads, its window and the stored key are unchanged.
C24_DecodeFailureContained ==
    [][(/\ srt.thread = "running"
        /\ srt'.thread = "exited"
        /\ last_call' = last_call)
           => /\ ~srt'.streaming
              /\ UNCHANGED <<streaming, threads, current_key, stream_buffer,
                             caller>>]_vars

\* The decode thread has ended on an error while the session is running
\* with a stored estimate and a live analysis thread.
C24_Witness ==
    /\ cfg.srt
    /\ srt.thread = "exited"
    /\ ~srt.streaming
    /\ srt.container = "open"
    /\ streaming
    /\ current_key \in Keys
    /\ \E t \in 1..Len(threads) : threads[t].pc = "loop"

\* C29: an exception inside one analysis cycle does not end the analysis
\* thread: a thread ends only at the loop test, with the flag clear; a cycle
\* that raises in the processor, the estimator or the listener leaves the
\* stored key as it was and the thread at the loop test, where it takes the
\* next block like any other.
C29_CycleExceptionsCaught ==
    [][\A t \in 1..Len(threads) :
          /\ (threads[t].pc # "dead" /\ threads'[t].pc = "dead")
                => (~streaming /\ threads[t].pc = "loop")
          /\ (CycleRaises(t) \/ ProcessorRaises(t))
                => /\ current_key' = current_key
                   /\ threads'[t] = NewThread
                   /\ stream_buffer' = stream_buffer]_vars

\* The listener was entered for a change of key and the cycle has ended
\* without the key being stored: the thread is back at the loop test.
C29_Witness ==
    /\ cfg.listener
    /\ streaming
    /\ current_key = "Unknown"
    /\ stream_buffer # <<>>
    /\ Len(stream_buffer) >= cfg.required_samples
    /\ \E t \in 1..Len(threads) : threads[t] = NewThread
    /\ audio_queue = <<>>
    /\ srt_queue = <<>>
    /\ produced = MaxSamples

----------------------------------------------------------------------------
\* Termination

\* C27: a stop_stream() of the session that has reached its join, and a
\* stop_stream() of the SRT source that is in progress, come to an end
\* whatever the analysis and decode threads do.
C27_StopTerminates ==
    /\ (caller = "join") ~> (caller = "idle")
    /\ SrtStopping ~> ~SrtStopping

\* stop_stream() of the session has returned while an analysis thread is
\* still inside the listener.
C27_Witness ==
    /\ last_call = [op |-> "stop_stream", outcome |-> "returned"]
    /\ caller = "idle"
    /\ ~streaming
    /\ \E t \in 1..Len(threads) : threads[t].pc = "listener"

\* stop_stream() of the SRT source has returned while its decode thread is
\* still alive.
C27_WitnessSrt ==
    /\ srt_call = [op |-> "stop_stream", outcome |-> "returned"]
    /\ _thread = "running"

\* C28: if from some point on the running flag stays clear (stop_stream()
\* cleared it and no start_stream() set it again), then from some point on
\* every analysis thread has left its loop, in live mode and in network
\* mode, whether or not blocks arrive.
C28_LoopExitsAfterStop ==
    <>[](~streaming) => <>[](\A t \in 1..Len(threads) : threads[t].pc = "dead")

\* In live mode, stop_stream() has returned, the queue is empty and the
\* analysis thread has left its loop.
C28_Witness ==
    /\ ~cfg.srt
    /\ last_call = [op |-> "stop_stream", outcome |-> "returned"]
    /\ ~streaming
    /\ audio_queue = <<>>
    /\ threads # <<>>
    /\ \A t \in 1..Len(threads) : threads[t].pc = "dead"

\* In network mode, the same with the source's queue.
C28_WitnessSrt ==
    /\ cfg.srt
    /\ last_call = [op |-> "stop_stream", outcome |-> "returned"]
    /\ ~streaming
    /\ srt_queue = <<>>
    /\ threads # <<>>
    /\ \A t \in 1..Len(threads) : threads[t].pc = "dead"

----------------------------------------------------------------------------
\* Properties of the estimator on transposed profiles

\* C31: a chroma vector that is the major (minor) profile transposed up by
\* p pitch classes is estimated as "<PITCH_CLASSES[p]> major" (minor).
C31_TonicNamed ==
    \A p \in Rotations, gain \in 1..MaxGain :
        /\ (detected # "none"
            /\ chroma_means = Transposed(MAJOR_PROFILE, p, gain))
              => detected = PITCH_CLASSES[p + 1] \o " major"
        /\ (detected # "none"
            /\ chroma_means = Transposed(MINOR_PROFILE, p, gain))
              => detected = PITCH_CLASSES[p + 1] \o " minor"

\* C32: the audio_queue of a started VSTStreamSource stays below a fixed
\* bound, however many process_block calls are made.
C32_QueueBounded == Len(vst_audio_queue) < MaxProcessed

----------------------------------------------------------------------------
\* Properties of a failed SRTStreamSource.start_stream

\* C33: whenever start_stream raises, the source is left not streaming and
\* holding no open container.
C33_FailedStartReleases ==
    [][(srt_start_stream /\ srt_call'.outcome = "RuntimeError")
          => (~_streaming' /\ _container' = "none")]_vars

----------------------------------------------------------------------------
\* Properties of a listener that raises

\* C34: when the listener raises during the notification of a change from
\* old to new, the stored key stays old and the loop continues, and the
\* thread's next cycle that estimates new invokes the listener again with
\* the same (old, new).
C34_RaisedListenerRetried ==
    [][\A t \in 1..Len(threads) :
          /\ ListenerRaises(t) =>
                /\ current_key' = threads[t].args[1]
                /\ threads'[t].pc = "loop"
          /\ \A e \in listener_raised :
                (e[1] = t /\ Estimate(t) /\ Notify(t, e[2][2])) =>
                    /\ threads'[t].pc = "listener"
                    /\ threads'[t].args = e[2]]_vars

----------------------------------------------------------------------------
\* Properties of stopping and restarting a session

C35_WitnessResumed ==
    /\ Len(threads) = 2
    /\ threads[1].pc = "dead"
    /\ streaming
    /\ Len(stream_buffer) = 2
    /\ stream_buffer = appended

----------------------------------------------------------------------------
\* Properties of the chain's membership and lifecycle

\* C37: between the calls add_plugin, remove_plugin, start_stream and
\* stop_stream (a start_stream in which a member's start raises included),
\* every member is streaming when the chain's flag is true and no member is
\* streaming when it is false.
C37_CascadeInvariant ==
    ChainReady =>
        \A p \in 1..Len(plugins) : plugins[p].streaming = chain_streaming

\* C38: remove_plugin(i) with a valid index removes the member at i, leaves
\* every other member as it was and in the same order, the later ones one
\* index lower; on a streaming chain it stops the removed member and no
\* other, on a stopped chain it stops nothing.
C38_RemoveStopsRemoved ==
    [][(remove_plugin /\ chain_call'.outcome # "IndexError") =>
          LET index == chain_call'.i
          IN  /\ Len(plugins') = Len(plugins) - 1
              /\ \A k \in 1..index : plugins'[k] = plugins[k]
              /\ \A k \in (index + 1)..Len(plugins') :
                    plugins'[k] = plugins[k + 1]
              /\ chain_log' = IF chain_streaming THEN << <<"stop", index>> >>
                              ELSE <<>>
              /\ chain_streaming' = chain_streaming]_vars

\* C38 witness: the first of two streaming members was removed from a
\* streaming chain; the second is streaming at index 0.
C38_Witness ==
    /\ chain_call = [op |-> "remove_plugin", i |-> 0, outcome |-> "returned"]
    /\ chain_streaming
    /\ chain_log = << <<"stop", 0>> >>
    /\ Len(plugins) = 1
    /\ plugins[1].id = 2
    /\ plugins[1].streaming

\* C38 witness: the first of two members was removed from a stopped chain.
C38_WitnessStopped ==
    /\ chain_call = [op |-> "remove_plugin", i |-> 0, outcome |-> "returned"]
    /\ ~chain_streaming
    /\ chain_log = <<>>
    /\ Len(plugins) = 1
    /\ plugins[1].id = 2

\* A step is a chain call that takes an index.
IndexedCall ==
    \/ remove_plugin
    \/ chain_set_plugin_parameter
    \/ chain_get_plugin_parameters

\* C39: remove_plugin, get_plugin_parameters and set_plugin_parameter with
\* an index outside 0..len-1, negative ones included, raise IndexError and
\* leave the plugin list, every plugin's parameters and the streaming flag
\* unchanged.
C39_IndexChecked ==
    [][(IndexedCall
        /\ ~(0 <= chain_call'.i /\ chain_call'.i < Len(plugins))) =>
           /\ chain_call'.outcome = "IndexError"
           /\ UNCHANGED <<plugins, chain_streaming>>]_vars

\* C39 witness: set_plugin_parameter(-1, ...) was called on a streaming
\* chain of two members, one of them with a parameter set before.
C39_Witness ==
    /\ chain_call = [op |-> "set_plugin_parameter", i |-> -1,
                     outcome |-> "IndexError"]
    /\ chain_streaming
    /\ Len(plugins) = 2
    /\ plugins[2].parameters.gain = 0

\* C39 witness: get_plugin_parameters(len) was called on a chain of one.
C39_WitnessGet ==
    /\ chain_call = [op |-> "get_plugin_parameters", i |-> 1,
                     outcome |-> "IndexError"]
    /\ Len(plugins) = 1

\* C39 witness: remove_plugin(-1) was called on a chain of two.
C39_WitnessRemove ==
    /\ chain_call = [op |-> "remove_plugin", i |-> -1,
                     outcome |-> "IndexError"]
    /\ Len(plugins) = 2

\* C40: add_plugin that returns has appended the new plugin at the tail
\* and returns its index, the previous length; add_plugin that raises
\* leaves the plugin list unchanged.
C40_AddAppends ==
    [][add_plugin =>
          IF chain_call'.outcome = "returned"
          THEN /\ Len(plugins') = Len(plugins) + 1
               /\ SubSeq(plugins', 1, Len(plugins)) = plugins
               /\ chain_call'.i = Len(plugins)
               /\ \A k \in 1..Len(plugins) :
                     plugins[k].id # plugins'[Len(plugins')].id
          ELSE plugins' = plugins]_vars

\* C40 witness: a second plugin was added and index 1 returned.
C40_Witness ==
    /\ chain_call = [op |-> "add_plugin", i |-> 1, outcome |-> "returned"]
    /\ Len(plugins) = 2
    /\ plugins[2].id = 2

\* C40 witness: add_plugin raised on a chain of one member.
C40_WitnessRaised ==
    /\ chain_call.op = "add_plugin"
    /\ chain_call.outcome = "raised"
    /\ Len(plugins) = 1

====
